---- MODULE Spec2Model ----
(***************************************************************************)
(* A model of scripts/iics_client.py: the IICSClient object, its retry     *)
(* decorators, the core-v3 endpoint resolution, the pull and job pollers   *)
(* and the rollback resolution.                                            *)
(*                                                                         *)
(* One client runs one public operation at a time (the code is             *)
(* synchronous).  A step of the model is the code between two blocking     *)
(* points: one attempt of a decorated method, one core-v3 request (all its *)
(* candidate base URLs), or one iteration of a poll loop.  The remote      *)
(* platform answers every request nondeterministically.                    *)
(*                                                                         *)
(* Python values: a string attribute is a TLA+ string, None is the value   *)
(* None; a URL is a sequence of tokens ("/" and "saas" are the tokens the  *)
(* code inspects), None is NoneUrl; an Optional[int] is <<>> or <<n>>.     *)
(***************************************************************************)
EXTENDS Integers, Sequences, FiniteSets, TLC

VARIABLES
    login_url,     \* self.login_url
    pod_url,       \* self.pod_url
    username,      \* self.username
    password,      \* self.password
    session_id,    \* self.session_id
    headers,       \* self.headers
    pc,            \* where the running operation stands; "idle" between calls
    op,            \* the public operation the caller invoked last
    arg,           \* its arguments
    attempt,       \* attempt number of the decorated operation the caller invoked
    inner,         \* attempt number of get_commit_objects called by the fallback
    outcomes,      \* how each finished attempt of the invoked operation ended
    trace,         \* requests, sleeps and waits, in order, since the running
                   \* decorated function's current attempt began (since the call
                   \* began in an undecorated operation)
    loc,           \* local variables of the running frames
    result,        \* what the last call returned or raised
    pre,           \* session_id and headers when the call began
    hist,          \* what the running call did on the platform, over all its
                   \* attempts: the pull actions it created
    cli            \* the command-line script driving the client, if one does:
                   \* where it stands, what it has done, its exit status

cfg == <<login_url, pod_url, username, password>>
sess == <<session_id, headers>>
vars == <<login_url, pod_url, username, password, session_id, headers,
          pc, op, arg, attempt, inner, outcomes, trace, loc, result, pre, hist, cli>>

\* The client object and the call in progress.
client == <<login_url, pod_url, username, password, session_id, headers,
            pc, op, arg, attempt, inner, outcomes, trace, loc, result, pre, hist>>

----------------------------------------------------------------------------
(* Bounds of the model *)

\* Status fetches one poll loop may perform before the model stops following it.
MaxPolls == 3

\* Largest job state code the activity log may report.
MaxJobState == 3

\* Longest change list of a commit whose objects are listed.
MaxChanges == 3

\* Longest change list of a commit the explicit-object fallback pulls.
MaxFallbackChanges == 2

\* Longest commit history the platform may return.
MaxCommits == 3

\* Pull actions counted per call; the count stays there once it is reached.
MaxActions == 2

\* Longest pod URL, in tokens, the candidate list is computed for.
MaxUrlLen == 4

----------------------------------------------------------------------------
(* Python values *)

None == "None"
NoneUrl == <<"None">>
NoInt == <<>>

\* `not s` is False
Truthy(s) == s # None /\ s # ""
TruthyUrl(u) == u # NoneUrl /\ u # <<>>

Min(a, b) == IF a < b THEN a ELSE b
Max(a, b) == IF a > b THEN a ELSE b

RECURSIVE Pow2(_)
Pow2(n) == IF n <= 0 THEN 1 ELSE 2 * Pow2(n - 1)

----------------------------------------------------------------------------
(* Exceptions *)

RequestExceptionKinds == {"ConnectionError", "HTTPError"}

\* An exception: its class, the HTTP status of an HTTPError's response (0 when
\* there is none), the attempt and the request of that attempt that raised
\* it, the fields of IICSPullError / IICSJobError, and the class of the
\* exception it was raised from ("raise ... from e").  error_msg is the server
\* error message the exception object holds: no class of exceptions.py has
\* such an attribute, and no message is built from it.
Exc(kind, status, at, req, cause) ==
    [kind |-> kind, status |-> status, at |-> at, req |-> req,
     pull_status |-> None, job_state |-> NoInt, object_name |-> None,
     error_msg |-> None, cause |-> cause]

NoExc == Exc(None, 0, 0, 0, None)

IICSConfigError(at) == Exc("IICSConfigError", 0, at, 0, None)

IICSAuthenticationError(e) == Exc("IICSAuthenticationError", 0, e.at, e.req, e.kind)

IICSPullErrorFrom(e) == Exc("IICSPullError", 0, e.at, e.req, e.kind)

\* The error class of exceptions.py that rollback_mapping does not raise.
IICSRollbackError(at, status) ==
    [Exc("IICSRollbackError", 0, at, 0, None) EXCEPT !.pull_status = status]

IICSPullError(at, status) ==
    [Exc("IICSPullError", 0, at, 0, None) EXCEPT !.pull_status = status]

IICSJobError(at, state, name) ==
    [Exc("IICSJobError", 0, at, 0, None) EXCEPT !.job_state = state, !.object_name = name]

\* isinstance(e, requests.RequestException)
IsRequestException(e) == e.kind \in RequestExceptionKinds

\* The transport-level failure of status st on request number req: a
\* connection error or timeout when there is no response (0), else the
\* HTTPError of raise_for_status.
TransportError(st, at, req) ==
    Exc(IF st = 0 THEN "ConnectionError" ELSE "HTTPError", st, at, req, None)

----------------------------------------------------------------------------
(* Retry decorator *)

\* stop_after_attempt(3)
StopAfterAttempt == 3
\* wait_exponential(multiplier=1, min=2, max=10)
WaitMin == 2
WaitMax == 10

WaitExponential(n) == Max(WaitMin, Min(Pow2(n - 1), WaitMax))

\* retry_if_exception_type(requests.RequestException) and not stopped
\* A retry predicate that retries on any exception.
ShouldRetryAnyException(e, n) == n < StopAfterAttempt

ShouldRetry(e, n) == IsRequestException(e) /\ n < StopAfterAttempt

----------------------------------------------------------------------------
(* Trace events *)

\* A request: method, base URL, path (its pieces), the headers sent and the
\* JSON body's commit hash and object ids (None and <<>> when it has none).
Request(method, base, path, hdrs, hash, ids) ==
    [ev |-> "request", method |-> method, base |-> base, path |-> path,
     headers |-> hdrs, commitHash |-> hash, objects |-> ids, secs |-> 0]
\* time.sleep(secs) of a poll loop
Sleep(secs) ==
    [ev |-> "sleep", method |-> None, base |-> <<>>, path |-> <<>>,
     headers |-> <<>>, commitHash |-> None, objects |-> <<>>, secs |-> secs]
\* the retry decorator's wait between two attempts
Wait(secs) ==
    [ev |-> "wait", method |-> None, base |-> <<>>, path |-> <<>>,
     headers |-> <<>>, commitHash |-> None, objects |-> <<>>, secs |-> secs]

Requests(tr) == SelectSeq(tr, LAMBDA e : e.ev = "request")

----------------------------------------------------------------------------
(* Results *)

NoResult == [kind |-> "none", str |-> None, int |-> NoInt, list |-> <<>>, exc |-> NoExc]
Returned(s, i, l) == [kind |-> "return", str |-> s, int |-> i, list |-> l, exc |-> NoExc]
Raised(e) == [kind |-> "raise", str |-> None, int |-> NoInt, list |-> <<>>, exc |-> e]

\* How an attempt that ended with exception e ended: by a transport-level
\* failure (raised as such or wrapped), or otherwise.
Label(e) ==
    IF IsRequestException(e) \/ e.cause \in RequestExceptionKinds
    THEN "transport" ELSE "error"

----------------------------------------------------------------------------
(* __init__ *)

ContentType == "application/json; charset=utf-8"

Put(h, k, v) == [x \in DOMAIN h \cup {k} |-> IF x = k THEN v ELSE h[x]]

InitHeaders(sid) ==
    LET base == [x \in {"Content-Type"} |-> ContentType]
    IN IF Truthy(sid)
       THEN Put(Put(base, "INFA-SESSION-ID", sid), "icSessionId", sid)
       ELSE base

LoginUrls == {None, "", "https://login"}
Usernames == {None, "", "user"}
Passwords == {None, "", "pass"}
Credentials == {<<None, None, None>>, <<"https://login", "user", "pass">>}
PodUrls == {NoneUrl, <<>>, <<"https://pod">>, <<"https://pod", "/", "saas">>}
InitSessionIds == {None, "", "sid-1"}

NoArg == [commit_hash |-> None, filter |-> None, object_id |-> None,
          task_id |-> None, task_type |-> None,
          path_name |-> None, mapping_name |-> None, object_type |-> None]

\* The login response before any was received.
NoResponse == [status |-> 0, userInfo |-> FALSE, sessionId |-> FALSE, sid |-> None]

\* The last _core_v3_request of the running attempt: what the candidates would
\* answer, the bases it contacted, in order, how many requests the attempt had
\* issued before, and how it ended.
NoCore == [ans |-> <<>>, bases |-> <<>>, n0 |-> 0, ok |-> FALSE, exc |-> NoExc]

\* Locals of the running frames: the arguments of the pull in progress, who
\* called _wait_for_pull_completion, the poll loops' variables; and what the
\* remote answered: the login response, the states the status fetches and the
\* activity log showed, fetch after fetch, the HTTP status of the last
\* activity-log answer and of the job-start answer (0 before it and when
\* there was no response), the commit history and the looked-up object ids
\* (<<>> before the answer, <<list>> after it), the change list of the
\* commit, how the bulk request ended and whether the fallback was called.
NoLoc == [commit_hash |-> None, object_id |-> None, object_ids |-> <<>>,
          pull_ctx |-> None, pull_action_id |-> None, status |-> None,
          previous_hash |-> None, run_id |-> 0, state |-> 0,
          activity_log |-> <<>>, polls |-> 0,
          login_response |-> NoResponse, observed |-> <<>>,
          bulk |-> None, fallback |-> FALSE, log_status |-> 0,
          commits |-> <<>>, objects |-> <<>>, changes |-> <<>>,
          core |-> NoCore, job_status |-> 0]

\* The pull actions the platform created for the running call, and how many
\* times the call attempted the bulk pull request and the commit listing.
NoHist == [actions |-> 0, bulk |-> 0, listings |-> 0]

\* No script: the client is called directly.  A script's record holds its
\* name, the step it is at, the environment's commit hash, the objects it
\* loops over and the index of the loop, the change list the platform sent
\* when none of it passed the filter, what it did, in order, the exit status
\* (<<>> while it runs), the status it will exit with after logging out and,
\* for a script that polls by itself, the status fetches of the running poll.
NoCli == [script |-> None, step |-> None, commit |-> None, objects |-> <<>>,
          idx |-> 0, listed |-> <<>>, log |-> <<>>, exit |-> NoInt, pending |-> NoInt,
          polls |-> 0]

\* A client built with credentials and any pod URL, or with neither.
Init ==
    /\ \E c \in Credentials :
         login_url = c[1] /\ username = c[2] /\ password = c[3]
    /\ pod_url \in IF login_url = None THEN {NoneUrl} ELSE PodUrls
    /\ session_id \in InitSessionIds
    /\ headers = InitHeaders(session_id)
    /\ pc = "idle"
    /\ op = None
    /\ arg = NoArg
    /\ attempt = 0
    /\ inner = 0
    /\ outcomes = <<>>
    /\ trace = <<>>
    /\ loc = NoLoc
    /\ result = NoResult
    /\ pre = [session_id |-> session_id, headers |-> headers]
    /\ hist = NoHist
    /\ cli = NoCli

----------------------------------------------------------------------------
(* The caller invokes an operation; the operation goes on; it ends *)

Call(o, a, start) ==
    /\ pc = "idle"
    /\ pc' = start
    /\ op' = o
    /\ arg' = a
    /\ attempt' = 1
    /\ inner' = 0
    /\ outcomes' = <<>>
    /\ trace' = <<>>
    /\ loc' = NoLoc
    /\ result' = NoResult
    /\ pre' = [session_id |-> session_id, headers |-> headers]
    /\ hist' = NoHist
    /\ UNCHANGED <<cfg, sess>>

\* The operation goes on at p with trace tr, locals l, inner attempt i.
Goto(p, tr, l, i) ==
    /\ pc' = p
    /\ trace' = tr
    /\ loc' = l
    /\ inner' = i
    /\ UNCHANGED <<op, arg, attempt, outcomes, result, pre, cfg, cli>>

\* The invoked operation returns r to the caller.
Return(r, tr, l) ==
    /\ pc' = "idle"
    /\ result' = r
    /\ outcomes' = Append(outcomes, "success")
    /\ trace' = tr
    /\ loc' = l
    /\ UNCHANGED <<op, arg, attempt, inner, pre, cfg, cli>>

\* The invoked operation raises e to the caller.
Raise(e, tr, l) ==
    /\ pc' = "idle"
    /\ result' = Raised(e)
    /\ outcomes' = Append(outcomes, Label(e))
    /\ trace' = tr
    /\ loc' = l
    /\ UNCHANGED <<op, arg, attempt, inner, pre, cfg, cli>>

\* An attempt of the invoked decorated operation raises e: tenacity waits and
\* calls it again from `start', or re-raises e (reraise=True).
RetryOrRaise(e, tr, l, start) ==
    IF ShouldRetry(e, attempt)
    THEN /\ pc' = start
         /\ attempt' = attempt + 1
         /\ inner' = 0
         /\ outcomes' = Append(outcomes, Label(e))
         /\ trace' = <<Wait(WaitExponential(attempt))>>
         /\ loc' = NoLoc
         /\ UNCHANGED <<op, arg, result, pre, cfg, cli>>
    ELSE Raise(e, tr, l)

----------------------------------------------------------------------------
(* login *)

LoginSessionIds == {"", "sid-1"}

\* What the login request may meet: no response (status 0), an error status,
\* or 200 with a JSON body that has or lacks userInfo and userInfo.sessionId.
LoginResponses ==
    [status : {0, 401, 500}, userInfo : {FALSE}, sessionId : {FALSE}, sid : {None}]
    \cup [status : {200}, userInfo : {FALSE}, sessionId : {FALSE}, sid : {None}]
    \cup [status : {200}, userInfo : {TRUE}, sessionId : {FALSE}, sid : {None}]
    \cup [status : {200}, userInfo : {TRUE}, sessionId : {TRUE}, sid : LoginSessionIds]

\* login() without the password in its credential check.
LoginBodyNoPasswordCheck(r) ==
    LET same == [session_id |-> session_id, headers |-> headers]
        req  == <<Request("POST", <<login_url>>, <<"/saas/public/core/v3/login">>,
                          <<>>, None, <<>>)>>
    IN IF ~(Truthy(login_url) /\ Truthy(username))
       THEN [out |-> Raised(IICSConfigError(attempt)), reqs |-> <<>>, st |-> same,
             seen |-> NoResponse]
       ELSE IF r.status # 200
       THEN [out |-> Raised(IICSAuthenticationError(TransportError(r.status, attempt, 1))),
             reqs |-> req, st |-> same, seen |-> r]
       ELSE IF ~(r.userInfo /\ r.sessionId)
       THEN [out |-> Raised(Exc("KeyError", 0, attempt, 1, None)), reqs |-> req,
             st |-> same, seen |-> r]
       ELSE [out |-> Returned(r.sid, NoInt, <<>>), reqs |-> req, seen |-> r,
             st |-> [session_id |-> r.sid,
                     headers |-> Put(Put(headers, "INFA-SESSION-ID", r.sid),
                                     "icSessionId", r.sid)]]

\* login() that drops the session before it posts the credentials.
LoginBodyClearsSession(r) ==
    LET same == [session_id |-> session_id, headers |-> headers]
        none == [session_id |-> None, headers |-> InitHeaders(None)]
        req  == <<Request("POST", <<login_url>>, <<"/saas/public/core/v3/login">>,
                          <<>>, None, <<>>)>>
    IN IF ~(Truthy(login_url) /\ Truthy(username) /\ Truthy(password))
       THEN [out |-> Raised(IICSConfigError(attempt)), reqs |-> <<>>, st |-> same,
             seen |-> NoResponse]
       ELSE IF r.status # 200
       THEN [out |-> Raised(IICSAuthenticationError(TransportError(r.status, attempt, 1))),
             reqs |-> req, st |-> none, seen |-> r]
       ELSE IF ~(r.userInfo /\ r.sessionId)
       THEN [out |-> Raised(Exc("KeyError", 0, attempt, 1, None)), reqs |-> req,
             st |-> none, seen |-> r]
       ELSE [out |-> Returned(r.sid, NoInt, <<>>), reqs |-> req, seen |-> r,
             st |-> [session_id |-> r.sid,
                     headers |-> Put(Put(headers, "INFA-SESSION-ID", r.sid),
                                     "icSessionId", r.sid)]]

\* The body of login() on response r: what it raises or returns, the request
\* it issued, and the session id and headers it leaves.
LoginBody(r) ==
    LET same == [session_id |-> session_id, headers |-> headers]
        req  == <<Request("POST", <<login_url>>, <<"/saas/public/core/v3/login">>,
                          <<>>, None, <<>>)>>
    IN IF ~(Truthy(login_url) /\ Truthy(username) /\ Truthy(password))
       THEN [out |-> Raised(IICSConfigError(attempt)), reqs |-> <<>>, st |-> same,
             seen |-> NoResponse]
       ELSE IF r.status # 200
       THEN [out |-> Raised(IICSAuthenticationError(TransportError(r.status, attempt, 1))),
             reqs |-> req, st |-> same, seen |-> r]
       ELSE IF ~(r.userInfo /\ r.sessionId)
       THEN [out |-> Raised(Exc("KeyError", 0, attempt, 1, None)), reqs |-> req,
             st |-> same, seen |-> r]
       ELSE [out |-> Returned(r.sid, NoInt, <<>>), reqs |-> req, seen |-> r,
             st |-> [session_id |-> r.sid,
                     headers |-> Put(Put(headers, "INFA-SESSION-ID", r.sid),
                                     "icSessionId", r.sid)]]

CallLogin == Call("login", NoArg, "login") /\ UNCHANGED cli

LoginAttempt ==
    /\ pc = "login"
    /\ \E r \in LoginResponses :
         LET b == LoginBody(r)
             l == [loc EXCEPT !.login_response = b.seen]
         IN /\ session_id' = b.st.session_id
            /\ headers' = b.st.headers
            /\ UNCHANGED hist
            /\ IF b.out.kind = "return"
               THEN Return(b.out, trace \o b.reqs, l)
               ELSE RetryOrRaise(b.out.exc, trace \o b.reqs, l, "login")

----------------------------------------------------------------------------
(* Base URLs *)

\* str.rstrip("/")
RECURSIVE RStripSlash(_)
RStripSlash(u) ==
    IF u # <<>> /\ u[Len(u)] = "/" THEN RStripSlash(SubSeq(u, 1, Len(u) - 1)) ELSE u

\* str.endswith("/saas")
EndsWithSaas(u) == Len(u) >= 2 /\ u[Len(u) - 1] = "/" /\ u[Len(u)] = "saas"

\* base[: -len("/saas")]
DropSaas(u) == SubSeq(u, 1, Len(u) - 2)

\* A v2 base URL that keeps the suffix.
ApiV2BaseUrlKeepsSuffix(u) == RStripSlash(u)

\* _api_v2_base_url, for a pod URL that is set
ApiV2BaseUrl(u) ==
    LET base == RStripSlash(u)
    IN IF EndsWithSaas(base) THEN DropSaas(base) ELSE base

\* A candidate list that puts the base as it is configured first.
CoreV3BaseUrlsConfiguredFirst(u) ==
    LET base == RStripSlash(u)
    IN IF EndsWithSaas(base)
       THEN <<base, DropSaas(base)>>
       ELSE <<base, base \o <<"/", "saas">>>>

\* _core_v3_base_urls, for a pod URL that is set
CoreV3BaseUrls(u) ==
    LET base == RStripSlash(u)
        base_no_saas == IF EndsWithSaas(base) THEN DropSaas(base) ELSE base
        base_with_saas == IF EndsWithSaas(base) THEN base ELSE base \o <<"/", "saas">>
    IN IF base_no_saas = base_with_saas
       THEN <<base_no_saas>>
       ELSE <<base_no_saas, base_with_saas>>

----------------------------------------------------------------------------
(* _core_v3_request *)

\* What the candidates of one core-v3 request may answer: a status each, 0
\* for no response at all.  The second candidate is asked only after a 404.
OkAnswers == {<<200, 200>>, <<404, 200>>}
FailAnswers == {<<0, 200>>, <<500, 200>>, <<404, 0>>, <<404, 404>>, <<404, 500>>}
CoreAnswers == OkAnswers \cup FailAnswers

\* The loop keeping the first not-found error instead of the last.
RECURSIVE CoreV3LoopFirstError(_, _, _, _, _, _, _, _, _)
CoreV3LoopFirstError(bases, i, method, path, hash, ids, ans, n0, acc) ==
    IF i > Len(bases)
    THEN [reqs |-> acc.reqs, ok |-> FALSE,
          exc |-> IF acc.last # NoExc THEN acc.last ELSE IICSPullError(attempt, None)]
    ELSE LET reqs == Append(acc.reqs, Request(method, bases[i], path, headers, hash, ids))
         IN IF ans[i] = 0
            THEN [reqs |-> reqs, ok |-> FALSE, exc |-> TransportError(0, attempt, n0 + i)]
            ELSE IF ans[i] = 404
            THEN CoreV3LoopFirstError(bases, i + 1, method, path, hash, ids, ans, n0,
                            [reqs |-> reqs,
                             last |-> IF acc.last # NoExc THEN acc.last
                                      ELSE TransportError(404, attempt, n0 + i)])
            ELSE IF ans[i] >= 400
            THEN [reqs |-> reqs, ok |-> FALSE, exc |-> TransportError(ans[i], attempt, n0 + i)]
            ELSE [reqs |-> reqs, ok |-> TRUE, exc |-> NoExc]

\* The loop of _core_v3_request from candidate i on: the requests issued, and
\* whether it returned a response or raised exc.  n0 requests were issued
\* before in this attempt; `last' is last_http_error.
RECURSIVE CoreV3Loop(_, _, _, _, _, _, _, _, _)
CoreV3Loop(bases, i, method, path, hash, ids, ans, n0, acc) ==
    IF i > Len(bases)
    THEN [reqs |-> acc.reqs, ok |-> FALSE,
          exc |-> IF acc.last # NoExc THEN acc.last ELSE IICSPullError(attempt, None)]
    ELSE LET reqs == Append(acc.reqs, Request(method, bases[i], path, headers, hash, ids))
         IN IF ans[i] = 0
            THEN [reqs |-> reqs, ok |-> FALSE, exc |-> TransportError(0, attempt, n0 + i)]
            ELSE IF ans[i] = 404
            THEN CoreV3Loop(bases, i + 1, method, path, hash, ids, ans, n0,
                            [reqs |-> reqs, last |-> TransportError(404, attempt, n0 + i)])
            ELSE IF ans[i] >= 400
            THEN [reqs |-> reqs, ok |-> FALSE, exc |-> TransportError(ans[i], attempt, n0 + i)]
            ELSE [reqs |-> reqs, ok |-> TRUE, exc |-> NoExc]

CoreV3Request(method, path, hash, ids, ans) ==
    CoreV3Loop(CoreV3BaseUrls(pod_url), 1, method, path, hash, ids, ans,
               Len(Requests(trace)), [reqs |-> <<>>, last |-> NoExc])

\* What the frame that called _core_v3_request keeps of it, for answers ans
\* and outcome r.
CoreSeen(ans, r) ==
    [ans |-> ans, bases |-> [i \in 1..Len(r.reqs) |-> r.reqs[i].base],
     n0 |-> Len(Requests(trace)), ok |-> r.ok, exc |-> r.exc]

\* The check without the session id.
AuthenticatedPodUrlOnly == TruthyUrl(pod_url)

\* `if not self.pod_url or not self.session_id'
Authenticated == TruthyUrl(pod_url) /\ Truthy(session_id)

----------------------------------------------------------------------------
(* Pulls: pull_by_commit, its fallback, pull_by_commit_object, the poller *)

CommitHashes == {"abc123def456"}
PullActionIds == {"pull-1"}
PullStates == {"IN_PROGRESS", "SUCCESSFUL", "FAILED", "CANCELLED"}

\* A pull request's answer: the candidates' statuses and whether the JSON body
\* has a pullActionId.
PullAnswers ==
    [ans : FailAnswers, hasId : {FALSE}, id : {None}]
    \cup [ans : OkAnswers, hasId : {FALSE}, id : {None}]
    \cup [ans : OkAnswers, hasId : {TRUE}, id : PullActionIds]

\* A status request's answer: the candidates' statuses and status.state of the
\* body (None when the body lacks it).
StatusAnswers ==
    [ans : FailAnswers, state : {None}]
    \cup [ans : OkAnswers, state : PullStates \cup {None}]

\* How the bulk request ended: accepted with a pull action id, reported
\* not-found by each of its n candidates, or otherwise.
BulkOutcome(ans, n, accepted) ==
    IF accepted THEN "accepted"
    ELSE IF \A i \in 1..n : ans[i] = 404 THEN "not_found"
    ELSE "error"

\* The platform created one more pull action for the running call.
Created(h) == [h EXCEPT !.actions = Min(@ + 1, MaxActions)]

\* Attempts of one request counted in a call: one more than the retry
\* decorator allows, and more count as this many.
MaxTries == StopAfterAttempt + 1

\* One more attempt of the bulk pull request, of the commit listing.
BulkTried(h) == [h EXCEPT !.bulk = Min(@ + 1, MaxTries)]
Listed(h) == [h EXCEPT !.listings = Min(@ + 1, MaxTries)]

\* pull_by_commit's handlers for an exception e raised inside its try block:
\* TRUE when the 404 branch calls the fallback, else e is re-raised wrapped.
FallsBack(e) == e.kind = "HTTPError" /\ e.status = 404

\* An exception e leaves a pull, raised by the request that starts it or by
\* _wait_for_pull_completion, called from ctx.
PullRaise(ctx, e, tr, l) ==
    CASE ctx = "pull_by_commit" ->
           IF FallsBack(e)
           THEN Goto("fallback_objects", <<>>,
                     [l EXCEPT !.fallback = TRUE, !.polls = 0, !.observed = <<>>], 1)
           ELSE RetryOrRaise(IICSPullErrorFrom(e), tr, l, "pull_by_commit")
      [] ctx = "fallback" -> RetryOrRaise(e, tr, l, "pull_by_commit")
      [] OTHER -> Raise(IICSPullErrorFrom(e), tr, l)

CallPullByCommit ==
    /\ UNCHANGED cli
    /\ \E c \in CommitHashes :
         Call("pull_by_commit", [NoArg EXCEPT !.commit_hash = c], "pull_by_commit")

\* One attempt of pull_by_commit up to the answer of pullByCommitHash.
PullByCommitStart ==
    /\ pc = "pull_by_commit"
    /\ UNCHANGED sess
    /\ IF ~Authenticated
       THEN /\ RetryOrRaise(IICSConfigError(attempt), trace, loc, "pull_by_commit")
            /\ UNCHANGED hist
       ELSE \E a \in PullAnswers :
              LET r == CoreV3Request("POST", <<"/public/core/v3/pullByCommitHash">>,
                                     arg.commit_hash, <<>>, a.ans)
                  tr == trace \o r.reqs
                  accepted == r.ok /\ a.hasId
                  l == [loc EXCEPT !.commit_hash = arg.commit_hash,
                                   !.pull_ctx = "pull_by_commit",
                                   !.core = CoreSeen(a.ans, r),
                                   !.bulk = BulkOutcome(a.ans, Len(r.reqs), accepted)]
              IN /\ hist' = IF accepted THEN Created(BulkTried(hist)) ELSE BulkTried(hist)
                 /\ IF ~r.ok THEN PullRaise("pull_by_commit", r.exc, tr, l)
                    ELSE IF ~a.hasId
                    THEN PullRaise("pull_by_commit",
                                   Exc("KeyError", 0, attempt, 0, None), tr, l)
                    ELSE Goto("wait_for_pull", tr,
                              [l EXCEPT !.pull_action_id = a.id, !.status = "IN_PROGRESS"],
                              inner)

\* One iteration of _wait_for_pull_completion's loop, and what follows it
\* when the loop ends.
\* A poller that takes a failed status fetch for an answer IN_PROGRESS.
WaitForPullCompletionIgnoresFailedFetch ==
    /\ pc = "wait_for_pull"
    /\ loc.polls < MaxPolls
    /\ UNCHANGED <<sess, hist>>
    /\ \E a \in StatusAnswers :
         LET r == CoreV3Request("GET", <<"/public/core/v3/sourceControlAction/",
                                         loc.pull_action_id>>, None, <<>>, a.ans)
             tr == (trace \o <<Sleep(10)>>) \o r.reqs
             l == [loc EXCEPT !.polls = @ + 1, !.core = CoreSeen(a.ans, r),
                              !.observed = IF r.ok /\ a.state # None
                                           THEN Append(@, a.state) ELSE @]
         IN IF ~r.ok \/ a.state = None \/ a.state = "IN_PROGRESS"
            THEN Goto("wait_for_pull", tr, l, inner)
            ELSE IF a.state # "SUCCESSFUL"
            THEN PullRaise(loc.pull_ctx, IICSPullError(attempt, a.state), tr,
                           [l EXCEPT !.status = a.state])
            ELSE Return(Returned(None, NoInt, <<>>), tr, [l EXCEPT !.status = a.state])

WaitForPullCompletion ==
    /\ pc = "wait_for_pull"
    /\ loc.polls < MaxPolls
    /\ UNCHANGED <<sess, hist>>
    /\ \E a \in StatusAnswers :
         LET r == CoreV3Request("GET", <<"/public/core/v3/sourceControlAction/",
                                         loc.pull_action_id>>, None, <<>>, a.ans)
             tr == (trace \o <<Sleep(10)>>) \o r.reqs
             l == [loc EXCEPT !.polls = @ + 1, !.core = CoreSeen(a.ans, r),
                              !.observed = IF r.ok /\ a.state # None
                                           THEN Append(@, a.state) ELSE @]
         IN IF ~r.ok THEN PullRaise(loc.pull_ctx, r.exc, tr, l)
            ELSE IF a.state = None
            THEN PullRaise(loc.pull_ctx, Exc("KeyError", 0, attempt, 0, None), tr, l)
            ELSE IF a.state = "IN_PROGRESS"
            THEN Goto("wait_for_pull", tr, [l EXCEPT !.status = a.state], inner)
            ELSE IF a.state # "SUCCESSFUL"
            THEN PullRaise(loc.pull_ctx, IICSPullError(attempt, a.state), tr,
                           [l EXCEPT !.status = a.state])
            ELSE Return(Returned(None, NoInt, <<>>), tr, [l EXCEPT !.status = a.state])

CallPullByCommitObject ==
    /\ UNCHANGED cli
    /\ \E c \in CommitHashes, o \in {"obj-1"} :
         Call("pull_by_commit_object",
              [NoArg EXCEPT !.commit_hash = c, !.object_id = o], "pull_by_commit_object")

\* pull_by_commit_object up to the answer of its pull request; rollback_mapping
\* calls it with the hash and object id it resolved.
PullByCommitObjectStart ==
    /\ pc = "pull_by_commit_object"
    /\ UNCHANGED sess
    /\ LET hash == IF op = "rollback_mapping" THEN loc.previous_hash ELSE arg.commit_hash
           oid == IF op = "rollback_mapping" THEN loc.object_id ELSE arg.object_id
           l == [loc EXCEPT !.commit_hash = hash, !.object_id = oid,
                            !.pull_ctx = "pull_by_commit_object"]
       IN IF ~Authenticated
          THEN /\ Raise(IICSConfigError(attempt), trace, loc)
               /\ UNCHANGED hist
          ELSE \E a \in PullAnswers :
                 LET r == CoreV3Request("POST", <<"/public/core/v3/pull">>,
                                        hash, <<oid>>, a.ans)
                     tr == trace \o r.reqs
                     lc == [l EXCEPT !.core = CoreSeen(a.ans, r)]
                 IN /\ hist' = IF r.ok /\ a.hasId THEN Created(hist) ELSE hist
                    /\ IF ~r.ok THEN PullRaise("pull_by_commit_object", r.exc, tr, lc)
                       ELSE IF ~a.hasId
                       THEN PullRaise("pull_by_commit_object",
                                      Exc("KeyError", 0, attempt, 0, None), tr, lc)
                       ELSE Goto("wait_for_pull", tr,
                                 [lc EXCEPT !.pull_action_id = a.id,
                                            !.status = "IN_PROGRESS"],
                                 inner)

----------------------------------------------------------------------------
(* get_commit_objects, and the fallback pull_by_commit_objects *)

\* A key the JSON object does not have.
Absent == "<absent>"

CommitObject(id, name, type, app) ==
    [id |-> id, name |-> name, type |-> type, appContextId |-> app]

CommitObjects ==
    {CommitObject("obj-1", "TestMapping1", "MTT", "app-ctx-1"),
     CommitObject("obj-2", "TestMapping2", "MTT", "app-ctx-2"),
     CommitObject(Absent, "TestSource", "DSS", Absent),
     CommitObject(Absent, "TestTask", "ZZZ", "app-ctx-3"),
     CommitObject(Absent, "TestTask2", "ZZZ", Absent)}

SeqsUpTo(S, n) == UNION {[1..k -> S] : k \in 0..n}

\* The `changes' of a commit (a body without the key reads as the empty list).
ChangeLists == SeqsUpTo(CommitObjects, MaxChanges)

CommitAnswers ==
    [ans : FailAnswers, changes : {<<>>}] \cup [ans : OkAnswers, changes : ChangeLists]

\* What get_commit_objects may be answered inside pull_by_commit_objects.
FallbackAnswers ==
    [ans : FailAnswers, changes : {<<>>}]
    \cup [ans : OkAnswers, changes : SeqsUpTo(CommitObjects, MaxFallbackChanges)]

TypeFilters == {None, "", "MTT", "DSS"}

\* A filter that returns the first matching object only.
FilterChangesFirstOnly(changes, filter) ==
    IF Truthy(filter)
    THEN LET m == SelectSeq(changes, LAMBDA x : x.type = filter)
         IN IF m = <<>> THEN <<>> ELSE <<m[1]>>
    ELSE changes

\* [x for x in changes if x.get('type') == resource_type_filter], or changes
FilterChanges(changes, filter) ==
    IF Truthy(filter)
    THEN SelectSeq(changes, LAMBDA x : x.type = filter)
    ELSE changes

\* A collection that keeps what obj.get('id') gives for an object without id.
RECURSIVE ObjectIdsKeepsMissing(_)
ObjectIdsKeepsMissing(objects) ==
    IF objects = <<>> THEN <<>>
    ELSE <<Head(objects).id>> \o ObjectIdsKeepsMissing(Tail(objects))

\* The ids pull_by_commit_objects collects: obj.get('id') when it is truthy
RECURSIVE ObjectIds(_)
ObjectIds(objects) ==
    IF objects = <<>> THEN <<>>
    ELSE LET id == Head(objects).id
         IN (IF id # Absent /\ Truthy(id) THEN <<id>> ELSE <<>>) \o ObjectIds(Tail(objects))

\* One attempt of get_commit_objects on answer a: the requests, and the list
\* it returns or the exception it raises; n is the attempt's number.
GetCommitObjectsBody(hash, filter, a) ==
    IF ~Authenticated
    THEN [reqs |-> <<>>, ok |-> FALSE, exc |-> IICSConfigError(attempt), list |-> <<>>,
          core |-> NoCore, changes |-> <<>>]
    ELSE LET r == CoreV3Request("GET", <<"/public/core/v3/commit/", hash>>,
                                None, <<>>, a.ans)
         IN [reqs |-> r.reqs, ok |-> r.ok, exc |-> r.exc,
             list |-> IF r.ok THEN FilterChanges(a.changes, filter) ELSE <<>>,
             core |-> CoreSeen(a.ans, r),
             changes |-> IF r.ok THEN a.changes ELSE <<>>]

CallGetCommitObjects ==
    /\ UNCHANGED cli
    /\ \E c \in CommitHashes, f \in TypeFilters :
         Call("get_commit_objects",
              [NoArg EXCEPT !.commit_hash = c, !.filter = f], "get_commit_objects")

GetCommitObjectsAttempt ==
    /\ pc = "get_commit_objects"
    /\ UNCHANGED sess
    /\ \E a \in CommitAnswers :
         LET b == GetCommitObjectsBody(arg.commit_hash, arg.filter, a)
             tr == trace \o b.reqs
             l == [loc EXCEPT !.core = b.core, !.changes = b.changes]
         IN /\ hist' = IF b.reqs # <<>> THEN Listed(hist) ELSE hist
            /\ IF b.ok
               THEN Return(Returned(None, NoInt, b.list), tr, l)
               ELSE RetryOrRaise(b.exc, tr, l, "get_commit_objects")

\* pull_by_commit_objects, called by pull_by_commit's 404 handler: one attempt
\* of its get_commit_objects call, then the collection of the object ids.
FallbackGetObjects ==
    /\ pc = "fallback_objects"
    /\ UNCHANGED sess
    /\ hist' = Listed(hist)
    /\ \E a \in FallbackAnswers :
         LET b == GetCommitObjectsBody(arg.commit_hash, None, a)
             tr == trace \o b.reqs
             ids == ObjectIds(b.list)
             l == [loc EXCEPT !.pull_ctx = "fallback", !.object_ids = ids,
                              !.polls = 0, !.observed = <<>>, !.core = b.core]
         IN IF ~b.ok
            THEN IF ShouldRetry(b.exc, inner)
                 THEN Goto("fallback_objects",
                           <<Wait(WaitExponential(inner))>>, loc, inner + 1)
                 ELSE PullRaise("fallback", b.exc, tr, [loc EXCEPT !.core = b.core])
            ELSE IF ids = <<>>
            THEN PullRaise("fallback", IICSPullError(attempt, None), tr,
                           [l EXCEPT !.changes = b.changes])
            ELSE Goto("fallback_pull", tr, l, inner)

\* pull_by_commit_objects' pull request for the collected ids.
FallbackPull ==
    /\ pc = "fallback_pull"
    /\ UNCHANGED sess
    /\ \E a \in PullAnswers :
         LET r == CoreV3Request("POST", <<"/public/core/v3/pull">>,
                                arg.commit_hash, loc.object_ids, a.ans)
             tr == trace \o r.reqs
             l == [loc EXCEPT !.core = CoreSeen(a.ans, r)]
         IN /\ hist' = IF r.ok /\ a.hasId THEN Created(hist) ELSE hist
            /\ IF ~r.ok THEN PullRaise("fallback", r.exc, tr, l)
               ELSE IF ~a.hasId
               THEN PullRaise("fallback", Exc("KeyError", 0, attempt, 0, None), tr, l)
               ELSE Goto("wait_for_pull", tr,
                         [l EXCEPT !.pull_action_id = a.id, !.status = "IN_PROGRESS"],
                         inner)

----------------------------------------------------------------------------
(* run_job and its poller *)

TaskIds == {"app-ctx-1"}
RunIds == {42}

\* The job-start answer: a status (0: no response) and the body's runId
\* (0 when the body has none).
JobAnswers ==
    [status : {0, 403, 404, 500}, runId : {0}] \cup [status : {200}, runId : RunIds \cup {0}]

JobStates == 0..MaxJobState

ActivityEntry(state, name, msg) == [state |-> state, objectName |-> name, errorMsg |-> msg]

\* The activity log of a run: empty, or its entry, or its entry followed by
\* an older one.
FirstEntries ==
    {ActivityEntry(st, n, m) : st \in JobStates, n \in {Absent, "TestMapping1"},
                               m \in {Absent, "Connection timeout"}}
OlderEntries == {ActivityEntry(st, "OtherMapping", Absent) : st \in JobStates}
ActivityLogs ==
    {<<>>} \cup {<<e>> : e \in FirstEntries}
    \cup {<<e, o>> : e \in FirstEntries, o \in OlderEntries}

ActivityAnswers ==
    [status : {0, 403, 404, 500}, log : {<<>>}] \cup [status : {200}, log : ActivityLogs]

\* dict.get(key, default)
Get(v, default) == IF v = Absent THEN default ELSE v

\* A poller that goes on polling on state 3.
JobOutcomeWarningKeepsPolling(state) ==
    IF state = 0 \/ state = 3 THEN "running" ELSE IF state # 1 THEN "failed" ELSE "success"

\* A poller that takes only state 2 for a failure.
JobOutcomeOnlyTwoFails(state) ==
    IF state = 0 THEN "running" ELSE IF state = 2 THEN "failed" ELSE "success"

\* What _wait_for_job_completion makes of a state: `while state == 0', then
\* `if state != 1'.
JobOutcome(state) ==
    IF state = 0 THEN "running" ELSE IF state # 1 THEN "failed" ELSE "success"

\* A poller that takes an empty activity log for a finished run.
ActivityStateEmptyIsSuccess(log, state) == IF log # <<>> THEN log[1].state ELSE 1

\* `if activity_log: state = activity_log[0]['state']', else state is kept
ActivityState(log, state) == IF log # <<>> THEN log[1].state ELSE state

CallRunJob ==
    /\ UNCHANGED cli
    /\ \E t \in TaskIds :
         Call("run_job", [NoArg EXCEPT !.task_id = t, !.task_type = "MTT"], "run_job")

\* A run_job that polls whether the answer has a run id or not.
RunJobStartPollsAnyway ==
    /\ pc = "run_job"
    /\ UNCHANGED <<sess, hist>>
    /\ IF ~Authenticated
       THEN Raise(IICSConfigError(attempt), trace, loc)
       ELSE \E a \in JobAnswers :
              LET tr == Append(trace, Request("POST", ApiV2BaseUrl(pod_url),
                                              <<"/api/v2/job/">>, headers, None, <<>>))
                  l == [loc EXCEPT !.job_status = a.status]
              IN IF a.status # 200
                 THEN Raise(TransportError(a.status, attempt, 1), tr, l)
                 ELSE Goto("wait_for_job", tr,
                           [l EXCEPT !.run_id = a.runId, !.state = 0], inner)

\* run_job up to the answer of the job-start request.
RunJobStart ==
    /\ pc = "run_job"
    /\ UNCHANGED <<sess, hist>>
    /\ IF ~Authenticated
       THEN Raise(IICSConfigError(attempt), trace, loc)
       ELSE \E a \in JobAnswers :
              LET tr == Append(trace, Request("POST", ApiV2BaseUrl(pod_url),
                                              <<"/api/v2/job/">>, headers, None, <<>>))
                  l == [loc EXCEPT !.job_status = a.status]
              IN IF a.status # 200
                 THEN Raise(TransportError(a.status, attempt, 1), tr, l)
                 ELSE IF a.runId = 0
                 THEN Raise(IICSJobError(attempt, NoInt, None), tr, l)
                 ELSE Goto("wait_for_job", tr,
                           [l EXCEPT !.run_id = a.runId, !.state = 0], inner)

\* One iteration of _wait_for_job_completion's loop, and what follows it when
\* the loop ends.
WaitForJobCompletion ==
    /\ pc = "wait_for_job"
    /\ loc.polls < MaxPolls
    /\ UNCHANGED <<sess, hist>>
    /\ \E a \in ActivityAnswers :
         LET tr == trace \o <<Sleep(20),
                              Request("GET", ApiV2BaseUrl(pod_url),
                                      <<"/api/v2/activity/activityLog?runId=", loc.run_id>>,
                                      headers, None, <<>>)>>
             state == ActivityState(a.log, loc.state)
             l == [loc EXCEPT !.polls = @ + 1, !.activity_log = a.log, !.state = state,
                              !.log_status = a.status,
                              !.observed = IF a.log # <<>>
                                           THEN Append(@, a.log[1].state) ELSE @]
         IN IF a.status # 200
            THEN Raise(TransportError(a.status, attempt, Len(Requests(tr))), tr,
                       [loc EXCEPT !.polls = @ + 1, !.log_status = a.status])
            ELSE IF JobOutcome(state) = "running"
            THEN Goto("wait_for_job", tr, l, inner)
            ELSE IF JobOutcome(state) = "failed"
            THEN Raise(IICSJobError(attempt, <<state>>,
                                    Get(a.log[1].objectName, "Unknown")), tr, l)
            ELSE Return(Returned(None, <<0>>, <<>>), tr, l)

----------------------------------------------------------------------------
(* rollback_mapping *)

\* The hashes of an object's commits, most recent first; a commit appears
\* once in a history.
CommitEntryHashes == <<"hash-e", "hash-d", "hash-c", "hash-b", "hash-a">>

\* The `commits' of a commit-history answer: the most recent ones, or none.
Histories == {SubSeq(CommitEntryHashes, 1, n) : n \in 0..MaxCommits}

HistoryAnswers ==
    [ans : FailAnswers, commits : {<<>>}] \cup [ans : OkAnswers, commits : Histories]

\* The `objects' of a lookup answer: their ids.
LookupAnswers ==
    [ans : FailAnswers, objects : {<<>>}]
    \cup [ans : OkAnswers, objects : {<<>>, <<"obj-1">>, <<"obj-2", "obj-1">>}]

\* The hash of the most recent commit.
PreviousHashIsCurrent(commits) == commits[1]

\* commit_json['commits'][1]['hash']
PreviousHash(commits) == commits[2]

CallRollbackMapping ==
    /\ UNCHANGED cli
    /\ Call("rollback_mapping",
            [NoArg EXCEPT !.path_name = "Default", !.mapping_name = "m_test",
                          !.object_type = "DTEMPLATE"],
            "rollback_history")

\* rollback_mapping up to the choice of the previous hash.
RollbackHistory ==
    /\ pc = "rollback_history"
    /\ UNCHANGED <<sess, hist>>
    /\ IF ~Authenticated
       THEN Raise(IICSConfigError(attempt), trace, loc)
       ELSE \E a \in HistoryAnswers :
              LET r == CoreV3Request("GET",
                                     <<"/public/core/v3/commitHistory?q=", arg.path_name,
                                       arg.mapping_name, arg.object_type>>,
                                     None, <<>>, a.ans)
                  tr == trace \o r.reqs
                  l == [loc EXCEPT !.core = CoreSeen(a.ans, r),
                                   !.commits = IF r.ok THEN <<a.commits>> ELSE <<>>]
              IN IF ~r.ok THEN Raise(r.exc, tr, l)
                 ELSE IF Len(a.commits) < 2
                 THEN Raise(IICSPullError(attempt, None), tr, l)
                 ELSE Goto("rollback_lookup", tr,
                           [l EXCEPT !.previous_hash = PreviousHash(a.commits)], inner)

\* A lookup that goes on to the pull when no object was returned.
RollbackLookupPullsAnyway ==
    /\ pc = "rollback_lookup"
    /\ UNCHANGED <<sess, hist>>
    /\ \E a \in LookupAnswers :
         LET r == CoreV3Request("POST", <<"/public/core/v3/lookup">>, None, <<>>, a.ans)
             tr == trace \o r.reqs
             l == [loc EXCEPT !.core = CoreSeen(a.ans, r),
                              !.objects = IF r.ok THEN <<a.objects>> ELSE <<>>]
         IN IF ~r.ok THEN Raise(r.exc, tr, l)
            ELSE Goto("pull_by_commit_object", tr,
                      [l EXCEPT !.object_id = IF a.objects = <<>> THEN None
                                              ELSE a.objects[1]], inner)

\* rollback_mapping from the lookup to the call of pull_by_commit_object.
RollbackLookup ==
    /\ pc = "rollback_lookup"
    /\ UNCHANGED <<sess, hist>>
    /\ \E a \in LookupAnswers :
         LET r == CoreV3Request("POST", <<"/public/core/v3/lookup">>, None, <<>>, a.ans)
             tr == trace \o r.reqs
             l == [loc EXCEPT !.core = CoreSeen(a.ans, r),
                              !.objects = IF r.ok THEN <<a.objects>> ELSE <<>>]
         IN IF ~r.ok THEN Raise(r.exc, tr, l)
            ELSE IF a.objects = <<>>
            THEN Raise(IICSPullError(attempt, None), tr, l)
            ELSE Goto("pull_by_commit_object", tr,
                      [l EXCEPT !.object_id = a.objects[1]], inner)

----------------------------------------------------------------------------
(* logout *)

CallLogout == Call("logout", NoArg, "logout") /\ UNCHANGED cli

\* A logout that lets the error of its request through.
LogoutPropagates ==
    /\ pc = "logout"
    /\ UNCHANGED <<sess, hist>>
    /\ IF ~Authenticated
       THEN Return(Returned(None, NoInt, <<>>), trace, loc)
       ELSE \E ans \in CoreAnswers :
              LET r == CoreV3Request("POST", <<"/public/core/v3/logout">>, None, <<>>, ans)
                  l == [loc EXCEPT !.core = CoreSeen(ans, r)]
              IN IF r.ok THEN Return(Returned(None, NoInt, <<>>), trace \o r.reqs, l)
                 ELSE Raise(r.exc, trace \o r.reqs, l)

\* A logout that forgets the session.
LogoutClearsSession ==
    /\ pc = "logout"
    /\ session_id' = None
    /\ headers' = InitHeaders(None)
    /\ UNCHANGED hist
    /\ IF ~Authenticated
       THEN Return(Returned(None, NoInt, <<>>), trace, loc)
       ELSE \E ans \in CoreAnswers :
              LET r == CoreV3Request("POST", <<"/public/core/v3/logout">>, None, <<>>, ans)
              IN Return(Returned(None, NoInt, <<>>), trace \o r.reqs,
                        [loc EXCEPT !.core = CoreSeen(ans, r)])

Logout ==
    /\ pc = "logout"
    /\ UNCHANGED <<sess, hist>>
    /\ IF ~Authenticated
       THEN Return(Returned(None, NoInt, <<>>), trace, loc)
       ELSE \E ans \in CoreAnswers :
              LET r == CoreV3Request("POST", <<"/public/core/v3/logout">>, None, <<>>, ans)
              IN Return(Returned(None, NoInt, <<>>), trace \o r.reqs,
                        [loc EXCEPT !.core = CoreSeen(ans, r)])

----------------------------------------------------------------------------
Next ==
    \/ CallLogin
    \/ LoginAttempt
    \/ CallPullByCommit
    \/ PullByCommitStart
    \/ WaitForPullCompletion
    \/ CallPullByCommitObject
    \/ PullByCommitObjectStart
    \/ CallGetCommitObjects
    \/ GetCommitObjectsAttempt
    \/ FallbackGetObjects
    \/ FallbackPull
    \/ CallRunJob
    \/ RunJobStart
    \/ WaitForJobCompletion
    \/ CallRollbackMapping
    \/ RollbackHistory
    \/ RollbackLookup
    \/ CallLogout
    \/ Logout

Spec == Init /\ [][Next]_vars

----------------------------------------------------------------------------
(* login alone, over every combination of credentials *)

InitLogin ==
    /\ login_url \in LoginUrls
    /\ username \in Usernames
    /\ password \in Passwords
    /\ pod_url = NoneUrl
    /\ session_id \in InitSessionIds
    /\ headers = InitHeaders(session_id)
    /\ pc = "idle"
    /\ op = None
    /\ arg = NoArg
    /\ attempt = 0
    /\ inner = 0
    /\ outcomes = <<>>
    /\ trace = <<>>
    /\ loc = NoLoc
    /\ result = NoResult
    /\ pre = [session_id |-> session_id, headers |-> headers]
    /\ hist = NoHist
    /\ cli = NoCli

NextLogin ==
    \/ CallLogin
    \/ LoginAttempt

SpecLogin == InitLogin /\ [][NextLogin]_vars

----------------------------------------------------------------------------
(* The two pollers, each under the one operation that does nothing else    *)
(* than start the remote operation and poll it, on an authenticated client *)

InitPoll ==
    /\ login_url = "https://login" /\ username = "user" /\ password = "pass"
    /\ pod_url \in {<<"https://pod">>, <<"https://pod", "/", "saas">>}
    /\ session_id = "sid-1"
    /\ headers = InitHeaders(session_id)
    /\ pc = "idle"
    /\ op = None
    /\ arg = NoArg
    /\ attempt = 0
    /\ inner = 0
    /\ outcomes = <<>>
    /\ trace = <<>>
    /\ loc = NoLoc
    /\ result = NoResult
    /\ pre = [session_id |-> session_id, headers |-> headers]
    /\ hist = NoHist
    /\ cli = NoCli

NextPoll ==
    \/ CallPullByCommitObject
    \/ PullByCommitObjectStart
    \/ WaitForPullCompletion
    \/ CallRunJob
    \/ RunJobStart
    \/ WaitForJobCompletion

\* A poller is a loop of the running thread: its sleep ends and its request
\* returns or raises, so a turn of the loop that can be taken is taken.  The
\* caller is under no such obligation to call anything.
SpecPoll ==
    /\ InitPoll
    /\ [][NextPoll]_vars
    /\ WF_vars(WaitForPullCompletion)
    /\ WF_vars(WaitForJobCompletion)

----------------------------------------------------------------------------
(* _core_v3_base_urls alone, over pod URLs of every shape *)

\* The tokens a pod URL is made of.
UrlTokens == {"https://pod", "/", "saas"}

InitBaseUrls ==
    /\ login_url = None /\ username = None /\ password = None
    /\ pod_url \in {NoneUrl} \cup SeqsUpTo(UrlTokens, MaxUrlLen)
    /\ session_id = "sid-1"
    /\ headers = InitHeaders(session_id)
    /\ pc = "idle"
    /\ op = None
    /\ arg = NoArg
    /\ attempt = 0
    /\ inner = 0
    /\ outcomes = <<>>
    /\ trace = <<>>
    /\ loc = NoLoc
    /\ result = NoResult
    /\ pre = [session_id |-> session_id, headers |-> headers]
    /\ hist = NoHist
    /\ cli = NoCli

CallCoreV3BaseUrls ==
    Call("_core_v3_base_urls", NoArg, "core_v3_base_urls") /\ UNCHANGED cli

\* _core_v3_base_urls: IICSConfigError without a pod URL, else the list.
CoreV3BaseUrlsStep ==
    /\ pc = "core_v3_base_urls"
    /\ UNCHANGED <<sess, hist>>
    /\ IF ~TruthyUrl(pod_url)
       THEN Raise(IICSConfigError(attempt), trace, loc)
       ELSE Return(Returned(None, NoInt, CoreV3BaseUrls(pod_url)), trace, loc)

NextBaseUrls ==
    \/ CallCoreV3BaseUrls
    \/ CoreV3BaseUrlsStep

SpecBaseUrls == InitBaseUrls /\ [][NextBaseUrls]_vars

----------------------------------------------------------------------------
(* The pipeline steps: deploy_dev.py, deploy_uat.py, rollback_mapping.py   *)

DeployScripts == {"deploy_dev", "deploy_uat"}
ClientScripts == DeployScripts \cup {"rollback_mapping"}
Scripts == ClientScripts \cup {"infa_update_and_test"}

\* What a script did: it called an operation of the client ("call"), or the
\* operation returned ("ok") or raised ("fail"); idx is where its loop over
\* the objects stood (0 outside the loop).
Ev(e, o, t) == [ev |-> e, op |-> o, task |-> t, idx |-> cli.idx]

\* The operation the script called has returned or raised.
Finished(o) == pc = "idle" /\ op = o /\ result.kind # "none"

\* sys.exit(n), or the end of main() (n = 0); log is what the script did.
ScriptExit(n, log) ==
    /\ cli' = [cli EXCEPT !.step = "exited", !.exit = <<n>>, !.log = log]
    /\ UNCHANGED client

\* client.<o>(...) called by the script, which then waits for it at step o.
ScriptCall(o, a, start, log, pending) ==
    /\ Call(o, a, start)
    /\ cli' = [cli EXCEPT !.step = o, !.log = Append(log, Ev("call", o, a.task_id)),
                          !.pending = pending]

\* The state of a step when its process starts: the environment's values are
\* the client's fields (the constructor copies them), the client is idle.
InitScript(names) ==
    /\ pc = "idle"
    /\ op = None
    /\ arg = NoArg
    /\ attempt = 0
    /\ inner = 0
    /\ outcomes = <<>>
    /\ trace = <<>>
    /\ loc = NoLoc
    /\ result = NoResult
    /\ headers = InitHeaders(session_id)
    /\ pre = [session_id |-> session_id, headers |-> headers]
    /\ hist = NoHist
    /\ \E n \in names, c \in {None} \cup CommitHashes :
         cli = [NoCli EXCEPT !.script = n, !.step = "start", !.commit = c]

\* deploy_dev.py and deploy_uat.py: IICSClient(pod_url=..., session_id=...);
\* rollback_mapping.py: IICSClient(login_url=..., pod_url=..., username=...,
\* password=...), the login URL having a default.
DeployPodUrls == {NoneUrl, <<>>, <<"https://pod">>}

InitDeploy ==
    /\ \/ /\ login_url = None /\ username = None /\ password = None
          /\ pod_url \in DeployPodUrls
          /\ session_id \in InitSessionIds
          /\ InitScript(DeployScripts)
       \/ /\ login_url = "https://login"
          /\ username \in {None, "user"}
          /\ password \in {None, "pass"}
          /\ pod_url \in DeployPodUrls
          /\ session_id = None
          /\ InitScript({"rollback_mapping", "infa_update_and_test"})

\* main() of deploy_dev.py and deploy_uat.py up to the first call in the try
\* block: the three environment checks, then get_commit_objects (DEV) or
\* pull_by_commit (UAT).
DeployStart ==
    /\ cli.script \in DeployScripts
    /\ cli.step = "start"
    /\ IF ~Truthy(cli.commit) \/ ~TruthyUrl(pod_url) \/ ~Truthy(session_id)
       THEN ScriptExit(1, cli.log)
       ELSE IF cli.script = "deploy_uat"
            THEN ScriptCall("pull_by_commit", [NoArg EXCEPT !.commit_hash = cli.commit],
                            "pull_by_commit", cli.log, NoInt)
            ELSE ScriptCall("get_commit_objects",
                            [NoArg EXCEPT !.commit_hash = cli.commit, !.filter = "ZZZ"],
                            "get_commit_objects", cli.log, NoInt)

\* A UAT step that goes on to the listing whether the pull raised or not.
DeployAfterPullGoesOn ==
    /\ cli.script = "deploy_uat"
    /\ cli.step = "pull_by_commit"
    /\ Finished("pull_by_commit")
    /\ ScriptCall("get_commit_objects",
                  [NoArg EXCEPT !.commit_hash = cli.commit, !.filter = "ZZZ"],
                  "get_commit_objects",
                  Append(cli.log, Ev(IF result.kind = "raise" THEN "fail" ELSE "ok",
                                     "pull_by_commit", None)), NoInt)

\* deploy_uat.py: pull_by_commit has ended; an exception goes to the except
\* block, which exits with status 1, a return to get_commit_objects.
DeployAfterPull ==
    /\ cli.script = "deploy_uat"
    /\ cli.step = "pull_by_commit"
    /\ Finished("pull_by_commit")
    /\ IF result.kind = "raise"
       THEN ScriptExit(1, Append(cli.log, Ev("fail", "pull_by_commit", None)))
       ELSE ScriptCall("get_commit_objects",
                       [NoArg EXCEPT !.commit_hash = cli.commit, !.filter = "ZZZ"],
                       "get_commit_objects",
                       Append(cli.log, Ev("ok", "pull_by_commit", None)), NoInt)

\* get_commit_objects has ended: exit 1 on an exception, else the loop starts
\* over the objects it returned.
DeployAfterList ==
    /\ cli.script \in DeployScripts
    /\ cli.step = "get_commit_objects"
    /\ Finished("get_commit_objects")
    /\ IF result.kind = "raise"
       THEN ScriptExit(1, Append(cli.log, Ev("fail", "get_commit_objects", None)))
       ELSE /\ cli' = [cli EXCEPT !.step = "loop", !.objects = result.list, !.idx = 1,
                                  !.listed = IF result.list = <<>>
                                             THEN <<loc.changes>> ELSE <<>>,
                                  !.log = Append(@, Ev("ok", "get_commit_objects", None))]
            /\ UNCHANGED client

\* One iteration of `for obj in objects': run_job on an object that has an
\* appContextId, a message for one that has none; after the last object,
\* client.logout().
DeployLoop ==
    /\ cli.script \in DeployScripts
    /\ cli.step = "loop"
    /\ IF cli.idx > Len(cli.objects)
       THEN ScriptCall("logout", NoArg, "logout", cli.log, <<0>>)
       ELSE LET app_context_id == cli.objects[cli.idx].appContextId
            IN IF app_context_id # Absent /\ Truthy(app_context_id)
               THEN ScriptCall("run_job",
                               [NoArg EXCEPT !.task_id = app_context_id, !.task_type = "MTT"],
                               "run_job", cli.log, NoInt)
               ELSE /\ cli' = [cli EXCEPT !.idx = @ + 1]
                    /\ UNCHANGED client

\* run_job has ended: exit 1 on an exception, else the next object.
DeployAfterJob ==
    /\ cli.script \in DeployScripts
    /\ cli.step = "run_job"
    /\ Finished("run_job")
    /\ IF result.kind = "raise"
       THEN ScriptExit(1, Append(cli.log, Ev("fail", "run_job", arg.task_id)))
       ELSE /\ cli' = [cli EXCEPT !.step = "loop", !.idx = @ + 1,
                                  !.log = Append(@, Ev("ok", "run_job", arg.task_id))]
            /\ UNCHANGED client

\* rollback_mapping.py up to client.login(): one check of the environment.
\* PATH_NAME and OBJECT_NAME are set.
RollbackStart ==
    /\ cli.script = "rollback_mapping"
    /\ cli.step = "start"
    /\ IF ~TruthyUrl(pod_url) \/ ~Truthy(username) \/ ~Truthy(password)
       THEN ScriptExit(1, cli.log)
       ELSE ScriptCall("login", NoArg, "login", cli.log, NoInt)

\* login has ended: an exception goes to the except block, whose sys.exit(1)
\* runs the finally block first; a return to rollback_mapping.
RollbackAfterLogin ==
    /\ cli.script = "rollback_mapping"
    /\ cli.step = "login"
    /\ Finished("login")
    /\ IF result.kind = "raise"
       THEN ScriptCall("logout", NoArg, "logout",
                       Append(cli.log, Ev("fail", "login", None)), <<1>>)
       ELSE ScriptCall("rollback_mapping",
                       [NoArg EXCEPT !.path_name = "Default", !.mapping_name = "m_test",
                                     !.object_type = "DTEMPLATE"],
                       "rollback_history",
                       Append(cli.log, Ev("ok", "login", None)), NoInt)

\* rollback_mapping has ended: the finally block logs out, then the script
\* exits with 1 after an exception and with 0 otherwise.
RollbackAfterRollback ==
    /\ cli.script = "rollback_mapping"
    /\ cli.step = "rollback_mapping"
    /\ Finished("rollback_mapping")
    /\ IF result.kind = "raise"
       THEN ScriptCall("logout", NoArg, "logout",
                       Append(cli.log, Ev("fail", "rollback_mapping", None)), <<1>>)
       ELSE ScriptCall("logout", NoArg, "logout",
                       Append(cli.log, Ev("ok", "rollback_mapping", None)), <<0>>)

\* logout has returned (it never raises): the script ends.
ScriptAfterLogout ==
    /\ cli.script \in ClientScripts
    /\ cli.step = "logout"
    /\ Finished("logout")
    /\ ScriptExit(cli.pending[1], Append(cli.log, Ev("ok", "logout", None)))

----------------------------------------------------------------------------
(* infa_update_and_test.py, which calls helper_functions.py and            *)
(* testing_functions.py instead of the client                              *)

\* The script goes to step st, having done e.
LegacyGoto(st, e) ==
    /\ cli' = [cli EXCEPT !.step = st, !.log = Append(@, e), !.polls = 0]
    /\ UNCHANGED client

\* An exception nothing catches ends the interpreter with status 1.
UncaughtException == 1

\* What iics_login gets: a transport error, or a status and a body that has
\* userInfo.sessionId or has not.
LegacyLoginAnswers ==
    {[kind |-> "exc", status |-> 0, sid |-> FALSE],
     [kind |-> "resp", status |-> 200, sid |-> TRUE],
     [kind |-> "resp", status |-> 200, sid |-> FALSE],
     [kind |-> "resp", status |-> 401, sid |-> FALSE]}

\* Lines 16-24 and iics_login: os.environ[...] raises KeyError on a variable
\* that is not set; a status other than 200 is printed and the body is read
\* all the same.
LegacyLogin ==
    /\ cli.script = "infa_update_and_test"
    /\ cli.step = "start"
    /\ IF cli.commit = None \/ pod_url = NoneUrl \/ username = None \/ password = None
       THEN ScriptExit(UncaughtException, cli.log)
       ELSE \E a \in LegacyLoginAnswers :
              IF a.kind = "exc" \/ ~a.sid
              THEN ScriptExit(UncaughtException,
                              cli.log \o <<Ev("call", "login", None), Ev("fail", "login", None)>>)
              ELSE /\ cli' = [cli EXCEPT !.step = "pull_start",
                                         !.log = @ \o <<Ev("call", "login", None),
                                                        Ev("ok", "login", None)>>]
                   /\ UNCHANGED client

\* What a request of the helpers gets: a transport error or a status.
LegacyAnswers ==
    {[kind |-> "exc", status |-> 0], [kind |-> "resp", status |-> 200],
     [kind |-> "resp", status |-> 404], [kind |-> "resp", status |-> 500]}

\* Line 28 and iics_pull_by_commit up to the poll loop: on a status other than
\* 200 the helper returns 99, which the script does not look at.
LegacyPullStart ==
    /\ cli.script = "infa_update_and_test"
    /\ cli.step = "pull_start"
    /\ \E a \in LegacyAnswers :
         LET log == Append(cli.log, Ev("call", "pull_by_commit", None))
         IN IF a.kind = "exc"
            THEN ScriptExit(UncaughtException,
                            Append(log, Ev("fail", "pull_by_commit", None)))
            ELSE IF a.status # 200
                 THEN /\ cli' = [cli EXCEPT !.step = "list",
                                            !.log = Append(log, Ev("fail", "pull_by_commit", None))]
                      /\ UNCHANGED client
                 ELSE /\ cli' = [cli EXCEPT !.step = "pull_poll", !.log = log, !.polls = 0]
                      /\ UNCHANGED client

\* One turn of iics_pull_by_commit's loop and what follows it: the state is
\* read whatever the status of the answer; the helper returns 0 on SUCCESSFUL
\* and 99 otherwise, and the script goes on to line 31 in both cases.
LegacyPullPoll ==
    /\ cli.script = "infa_update_and_test"
    /\ cli.step = "pull_poll"
    /\ cli.polls < MaxPolls
    /\ \E a \in {"exc", "IN_PROGRESS", "SUCCESSFUL", "FAILED"} :
         CASE a = "exc" -> ScriptExit(UncaughtException,
                                      Append(cli.log, Ev("fail", "pull_by_commit", None)))
           [] a = "IN_PROGRESS" -> /\ cli' = [cli EXCEPT !.polls = @ + 1]
                                   /\ UNCHANGED client
           [] a = "SUCCESSFUL" -> LegacyGoto("list", Ev("ok", "pull_by_commit", None))
           [] OTHER -> LegacyGoto("list", Ev("fail", "pull_by_commit", None))

\* Lines 31-40: the commit's changes, exit(99) on a status other than 200,
\* the objects of type MTT kept.
LegacyList ==
    /\ cli.script = "infa_update_and_test"
    /\ cli.step = "list"
    /\ \E a \in LegacyAnswers, changes \in ChangeLists :
         LET log == Append(cli.log, Ev("call", "get_commit_objects", None))
         IN IF a.kind = "exc" \/ a.status # 200
            THEN /\ changes = <<>>
                 /\ ScriptExit(IF a.kind = "exc" THEN UncaughtException ELSE 99,
                               Append(log, Ev("fail", "get_commit_objects", None)))
            ELSE /\ cli' = [cli EXCEPT !.step = "test_start",
                                       !.objects = FilterChanges(changes, "MTT"),
                                       !.idx = 1,
                                       !.log = Append(log, Ev("ok", "get_commit_objects", None))]
                 /\ UNCHANGED client

\* Lines 44-45 and test_mtt up to its loop: the next mapping task's job is
\* started, sys.exit(99) on a status other than 200; after the last one the
\* script goes to line 51.  x['appContextId'] raises KeyError on an object
\* that has none.
LegacyTestStart ==
    /\ cli.script = "infa_update_and_test"
    /\ cli.step = "test_start"
    /\ IF cli.idx > Len(cli.objects)
       THEN /\ cli' = [cli EXCEPT !.step = "logout"]
            /\ UNCHANGED client
       ELSE LET app_context_id == cli.objects[cli.idx].appContextId
                log == Append(cli.log, Ev("call", "run_job", app_context_id))
            IN IF app_context_id = Absent
               THEN ScriptExit(UncaughtException, cli.log)
               ELSE \E a \in LegacyAnswers :
                      IF a.kind = "exc" \/ a.status # 200
                      THEN ScriptExit(IF a.kind = "exc" THEN UncaughtException ELSE 99,
                                      Append(log, Ev("fail", "run_job", app_context_id)))
                      ELSE /\ cli' = [cli EXCEPT !.step = "test_poll", !.log = log,
                                                 !.polls = 0]
                           /\ UNCHANGED client

\* What test_mtt's status fetch gets: a transport error, an empty log, or a
\* log whose first entry has a state.
LegacyActivityAnswers ==
    {[kind |-> "exc", state |-> 0], [kind |-> "empty", state |-> 0]}
        \cup [kind : {"entry"}, state : JobStates]

\* One turn of test_mtt's loop and lines 47-49: activity_log[0] raises
\* IndexError on an empty log; state 0 polls again, state 1 goes to the next
\* object, any other state makes test_mtt return 99 and the script exit(99).
LegacyTestPoll ==
    /\ cli.script = "infa_update_and_test"
    /\ cli.step = "test_poll"
    /\ cli.polls < MaxPolls
    /\ LET t == cli.objects[cli.idx].appContextId
       IN \E a \in LegacyActivityAnswers :
            CASE a.kind # "entry" ->
                   ScriptExit(UncaughtException, Append(cli.log, Ev("fail", "run_job", t)))
              [] a.kind = "entry" /\ a.state = 0 ->
                   /\ cli' = [cli EXCEPT !.polls = @ + 1]
                   /\ UNCHANGED client
              [] a.kind = "entry" /\ a.state = 1 ->
                   /\ cli' = [cli EXCEPT !.step = "test_start", !.idx = @ + 1, !.polls = 0,
                                         !.log = Append(@, Ev("ok", "run_job", t))]
                   /\ UNCHANGED client
              [] OTHER -> ScriptExit(99, Append(cli.log, Ev("fail", "run_job", t)))

\* Line 51: the logout request, whose answer is not looked at, then the end
\* of the script.
LegacyLogout ==
    /\ cli.script = "infa_update_and_test"
    /\ cli.step = "logout"
    /\ \E a \in LegacyAnswers :
         LET log == Append(cli.log, Ev("call", "logout", None))
         IN IF a.kind = "exc"
            THEN ScriptExit(UncaughtException, Append(log, Ev("fail", "logout", None)))
            ELSE ScriptExit(0, Append(log, Ev("ok", "logout", None)))

NextDeploy ==
    \/ DeployStart
    \/ DeployAfterPull
    \/ DeployAfterList
    \/ DeployLoop
    \/ DeployAfterJob
    \/ RollbackStart
    \/ RollbackAfterLogin
    \/ RollbackAfterRollback
    \/ ScriptAfterLogout
    \/ LegacyLogin
    \/ LegacyPullStart
    \/ LegacyPullPoll
    \/ LegacyList
    \/ LegacyTestStart
    \/ LegacyTestPoll
    \/ LegacyLogout
    \/ LoginAttempt
    \/ PullByCommitStart
    \/ WaitForPullCompletion
    \/ PullByCommitObjectStart
    \/ GetCommitObjectsAttempt
    \/ FallbackGetObjects
    \/ FallbackPull
    \/ RunJobStart
    \/ WaitForJobCompletion
    \/ RollbackHistory
    \/ RollbackLookup
    \/ Logout

SpecDeploy == InitDeploy /\ [][NextDeploy]_vars

----------------------------------------------------------------------------
(* Properties *)

\* The operations carrying the retry decorator.
Decorated == {"login", "pull_by_commit", "get_commit_objects"}

\* The operations that need a pod URL and a session id.
AuthenticatedOps == {"pull_by_commit", "pull_by_commit_object", "get_commit_objects",
                     "run_job", "rollback_mapping"}

Done(o) == pc = "idle" /\ op = o

IsPrefix(s, t) == Len(s) <= Len(t) /\ SubSeq(t, 1, Len(s)) = s

AllTransport(s) == s # <<>> /\ \A i \in 1..Len(s) : s[i] = "transport"

SessionHeaders == {"INFA-SESSION-ID", "icSessionId"}

\* C1: a decorated operation (login, pull_by_commit, get_commit_objects) that
\* meets a transport failure on its first two attempts and none on the third
\* makes exactly 3 attempts and returns the success result.  A finished call
\* whose attempts so far ended as that transport would make them end has made
\* all three attempts and returned.
C1_RetriesTwiceThenSucceeds ==
    (pc = "idle" /\ op \in Decorated /\ outcomes # <<>>
       /\ IsPrefix(outcomes, <<"transport", "transport", "success">>))
    => /\ outcomes = <<"transport", "transport", "success">>
       /\ attempt = 3
       /\ result.kind = "return"

\* C2: a decorated operation whose every attempt meets a transport failure
\* makes exactly 3 attempts and raises the last transport error itself: a
\* requests exception, raised by the third attempt, not an IICSPullError or
\* any other domain error.
C2_ExhaustionReraisesTransportError ==
    (pc = "idle" /\ op \in Decorated /\ AllTransport(outcomes))
    => /\ attempt = 3
       /\ Len(outcomes) = 3
       /\ result.kind = "raise"
       /\ IsRequestException(result.exc)
       /\ result.exc.at = 3

\* C3: login() with the login URL, the username or the password missing or
\* empty raises IICSConfigError on its first attempt, is not attempted again,
\* and issues no request.
C3_LoginMissingCredentials ==
    (op = "login" /\ (login_url \in {None, ""} \/ username \in {None, ""}
                        \/ password \in {None, ""}))
    => /\ attempt = 1
       /\ trace = <<>>
       /\ pc = "idle" => /\ result.kind = "raise"
                         /\ result.exc.kind = "IICSConfigError"
                         /\ outcomes = <<"error">>

C3_Witness ==
    /\ Done("login")
    /\ Truthy(login_url) /\ Truthy(username) /\ password = ""
    /\ result.exc.kind = "IICSConfigError"

\* C4: pull_by_commit, pull_by_commit_object, get_commit_objects, run_job and
\* rollback_mapping, called with the pod URL or the session id missing or
\* empty, raise IICSConfigError on the first attempt, are not attempted again,
\* and issue no request.
C4_AuthenticatedOpsNeedConfig ==
    (op \in AuthenticatedOps /\ (pod_url \in {NoneUrl, <<>>} \/ session_id \in {None, ""}))
    => /\ attempt = 1
       /\ trace = <<>>
       /\ pc = "idle" => /\ result.kind = "raise"
                         /\ result.exc.kind = "IICSConfigError"
                         /\ outcomes = <<"error">>

C4_Witness ==
    /\ Done("rollback_mapping")
    /\ TruthyUrl(pod_url) /\ session_id = ""
    /\ result.exc.kind = "IICSConfigError"

\* C5: a login() whose every attempt failed at transport level raises
\* IICSAuthenticationError and leaves the session id and the headers as they
\* were when it was called.
C5_LoginTransportFailure ==
    (Done("login") /\ AllTransport(outcomes))
    => /\ result.kind = "raise"
       /\ result.exc.kind = "IICSAuthenticationError"
       /\ session_id = pre.session_id
       /\ headers = pre.headers

C5_Witness ==
    /\ Done("login")
    /\ AllTransport(outcomes)
    /\ loc.login_response.status = 0
    /\ pre.session_id = "sid-1"
    /\ SessionHeaders \subseteq DOMAIN headers

\* C6: a login() answered 200 with a body that lacks userInfo.sessionId raises
\* IICSAuthenticationError and leaves the session id as it was.
C6_LoginBodyWithoutSessionId ==
    (Done("login") /\ trace # <<>> /\ loc.login_response.status = 200
       /\ ~(loc.login_response.userInfo /\ loc.login_response.sessionId))
    => /\ result.kind = "raise"
       /\ result.exc.kind = "IICSAuthenticationError"
       /\ session_id = pre.session_id

\* C7: in every state the headers hold Content-Type; they hold the two session
\* headers, both equal to the session id, when the session id is set, and
\* neither of them when it is not; and after a successful login the returned
\* value, the session id and both headers are the session id of the response.
C7_HeadersFollowSessionId ==
    /\ "Content-Type" \in DOMAIN headers
    /\ headers["Content-Type"] = ContentType
    /\ IF session_id \notin {None, ""}
       THEN /\ SessionHeaders \subseteq DOMAIN headers
            /\ \A h \in SessionHeaders : headers[h] = session_id
       ELSE SessionHeaders \cap DOMAIN headers = {}
    /\ (Done("login") /\ result.kind = "return")
       => /\ result.str = loc.login_response.sid
          /\ session_id = result.str
          /\ \A h \in SessionHeaders : headers[h] = result.str

\* The states the job poller saw that were not 0, in the order it saw them.
NonZeroObserved == SelectSeq(loc.observed, LAMBDA st : st # 0)

\* C8: run_job returns 0 exactly when the first state other than 0 that the
\* first entry of the activity log showed is 1; for another such state s it
\* raises IICSJobError with job_state s; it does not return while every
\* state it saw was 0.
C8_RunJobResultFollowsFirstNonZeroState ==
    Done("run_job")
    => /\ result.kind = "return"
          => result.int = <<0>> /\ NonZeroObserved # <<>> /\ NonZeroObserved[1] = 1
       /\ (NonZeroObserved # <<>> /\ NonZeroObserved[1] = 1)
          => result.kind = "return" /\ result.int = <<0>>
       /\ (NonZeroObserved # <<>> /\ NonZeroObserved[1] # 1)
          => /\ result.kind = "raise"
             /\ result.exc.kind = "IICSJobError"
             /\ result.exc.job_state = <<NonZeroObserved[1]>>

C8_Witness ==
    /\ Done("run_job")
    /\ loc.observed = <<0, 3>>
    /\ result.exc.kind = "IICSJobError"
    /\ result.exc.job_state = <<3>>

\* C9: the IICSJobError of a run that ended in a failure state carries the
\* object name and the server error message of the first entry of the
\* activity log.
C9_JobErrorCarriesNameAndMessage ==
    (Done("run_job") /\ result.kind = "raise" /\ result.exc.kind = "IICSJobError"
       /\ result.exc.job_state # NoInt)
    => /\ result.exc.object_name = Get(loc.activity_log[1].objectName, "Unknown")
       /\ result.exc.error_msg = Get(loc.activity_log[1].errorMsg, "No error message")

\* C10: a pull polled to a terminal state other than SUCCESSFUL raises an
\* IICSPullError whose pull_status is that state, and the operation returns
\* only when the terminal state is SUCCESSFUL.
C10_PullErrorCarriesStatus ==
    (pc = "idle" /\ op \in {"pull_by_commit", "pull_by_commit_object", "rollback_mapping"})
    => /\ loc.status \in PullStates \ {"IN_PROGRESS", "SUCCESSFUL"}
          => /\ result.kind = "raise"
             /\ result.exc.kind = "IICSPullError"
             /\ result.exc.pull_status = loc.status
       /\ result.kind = "return" => loc.status = "SUCCESSFUL"

\* C11: pull_by_commit takes the explicit-object fallback exactly when every
\* candidate base URL reported the bulk pullByCommitHash request not-found;
\* once the bulk request was accepted with a pull action id, the attempt
\* never takes the fallback, whatever the polling meets.
C11_FallbackOnlyWhenBulkNotFound ==
    op = "pull_by_commit"
    => /\ loc.fallback <=> loc.bulk = "not_found"
       /\ loc.bulk = "accepted" => ~loc.fallback

\* C12: one call of pull_by_commit, over all its attempts and its fallback,
\* has at most one pull request (pullByCommitHash or pull) accepted and
\* answered with a pull action id.
C12_AtMostOnePullAction ==
    op = "pull_by_commit" => hist.actions <= 1

\* The candidate base URLs of the pod URL, suffix-stripped first.
Candidates == CoreV3BaseUrls(pod_url)

\* C13: a core-v3 request contacts the candidate base URLs in order; it goes
\* on to the next candidate after a 404 and only then; any other answer ends
\* it there (a success is returned, an error raised); when every candidate
\* answered 404 the error of the last candidate is raised.
C13_CandidatesTriedInOrder ==
    loc.core.ans # <<>>
    => LET c == loc.core
           n == Len(c.bases)
       IN /\ n >= 1 /\ n <= Len(Candidates)
          /\ c.bases = SubSeq(Candidates, 1, n)
          /\ \A i \in 1..(n - 1) : c.ans[i] = 404
          /\ c.ans[n] = 404 => n = Len(Candidates)
          /\ c.ok <=> (c.ans[n] >= 200 /\ c.ans[n] < 400)
          /\ ~c.ok => /\ c.exc.status = c.ans[n]
                       /\ c.exc.req = c.n0 + n
                       /\ c.exc.kind = IF c.ans[n] = 0 THEN "ConnectionError"
                                        ELSE "HTTPError"

C13_Witness ==
    /\ Done("rollback_mapping")
    /\ loc.core.ans = <<404, 404>>
    /\ Len(loc.core.bases) = 2
    /\ result.kind = "raise"
    /\ result.exc = loc.core.exc
    /\ result.exc.status = 404

\* The pod URL without trailing slashes and without the /saas suffix.
SuffixStripped(u) ==
    LET b == RStripSlash(u) IN IF EndsWithSaas(b) THEN DropSaas(b) ELSE b

\* C14: every request of run_job (the job start and each activity-log fetch)
\* goes to the suffix-stripped base URL, whether the pod URL has the suffix or
\* not; the job start and each fetch are one request each; and a request
\* answered 404 is the last request of the call.
C14_JobRequestsUseStrippedBaseOnly ==
    op = "run_job"
    => LET reqs == Requests(trace)
       IN /\ \A i \in 1..Len(reqs) :
                /\ reqs[i].base = SuffixStripped(pod_url)
                /\ ~EndsWithSaas(reqs[i].base)
          /\ Len(reqs) = IF trace = <<>> THEN 0 ELSE 1 + loc.polls
          /\ (result.kind = "raise" /\ result.exc.status = 404)
             => /\ pc = "idle"
                /\ result.exc.req = Len(reqs)

C14_Witness ==
    /\ Done("run_job")
    /\ EndsWithSaas(pod_url)
    /\ loc.polls >= 1
    /\ result.kind = "raise"
    /\ result.exc.status = 404
    /\ Len(Requests(trace)) = 1 + loc.polls

HistoryPath == "/public/core/v3/commitHistory?q="
LookupPath == "/public/core/v3/lookup"
PullPath == "/public/core/v3/pull"
StatusPath == "/public/core/v3/sourceControlAction/"

\* The endpoints the requests of tr went to, in order.
Paths(tr) == [i \in 1..Len(Requests(tr)) |-> Requests(tr)[i].path[1]]

Rank(path) ==
    CASE path = HistoryPath -> 1
      [] path = LookupPath -> 2
      [] path = PullPath -> 3
      [] path = StatusPath -> 4
      [] OTHER -> 0

\* C16: rollback_mapping answered a commit history of 2 or more entries sends
\* its requests in the order history, lookup, pull (then the status fetches);
\* every pull request it sends names the hash of history entry index 1 and
\* the id of the first object of the lookup answer, never the hash of entry
\* index 0; and it has at most one pull accepted.
C16_RollbackPullsPreviousCommit ==
    (op = "rollback_mapping" /\ loc.commits # <<>> /\ Len(loc.commits[1]) >= 2)
    => LET reqs == Requests(trace)
           paths == Paths(trace)
           commits == loc.commits[1]
       IN /\ paths[1] = HistoryPath
          /\ \A i, j \in 1..Len(paths) :
                i < j => (Rank(paths[i]) >= 1 /\ Rank(paths[i]) <= Rank(paths[j]))
          /\ \A i \in 1..Len(reqs) :
                reqs[i].path[1] = PullPath
                => /\ loc.objects # <<>> /\ loc.objects[1] # <<>>
                   /\ reqs[i].commitHash = commits[2]
                   /\ reqs[i].commitHash # commits[1]
                   /\ reqs[i].objects = <<loc.objects[1][1]>>
          /\ Len(SelectSeq(paths, LAMBDA q : q = PullPath)) <= Len(Candidates)
          /\ hist.actions <= 1

C16_Witness ==
    /\ Done("rollback_mapping")
    /\ result.kind = "return"
    /\ loc.commits # <<>> /\ Len(loc.commits[1]) = 3
    /\ loc.objects = << <<"obj-2", "obj-1">> >>
    /\ hist.actions = 1
    /\ \E i \in 1..Len(Requests(trace)) :
         /\ Requests(trace)[i].path[1] = PullPath
         /\ Requests(trace)[i].objects = <<"obj-2">>

C18_FilterKeepsMatchingInOrder ==
    (Done("get_commit_objects") /\ result.kind = "return")
    => /\ arg.filter = None => result.list = loc.changes
       /\ Truthy(arg.filter)
          => result.list = SelectSeq(loc.changes, LAMBDA x : x.type = arg.filter)

C18_Witness ==
    /\ Done("get_commit_objects")
    /\ arg.filter = "MTT"
    /\ Len(loc.changes) = 3
    /\ loc.changes[1].id = "obj-1" /\ loc.changes[2].type = "DSS"
    /\ loc.changes[3].id = "obj-2"
    /\ result.kind = "return"
    /\ result.list = <<loc.changes[1], loc.changes[3]>>

ActivityPath == "/api/v2/activity/activityLog?runId="

\* The events of tr after the request that started the operation polled: after
\* the last request that is no status fetch.
PollTail(tr) ==
    LET starts == {i \in 1..Len(tr) : /\ tr[i].ev = "request"
                                      /\ tr[i].path[1] \notin {StatusPath, ActivityPath}}
        from == IF starts = {} THEN 0 ELSE CHOOSE i \in starts : \A j \in starts : j <= i
    IN SubSeq(tr, from + 1, Len(tr))

\* t is n rounds of one sleep of `delay' seconds and then one fetch, a fetch
\* being one request, or up to `width' requests to successive candidates.
WellPolled(t, delay, width, n) ==
    /\ Len(SelectSeq(t, LAMBDA e : e.ev = "sleep")) = n
    /\ \A i \in 1..Len(t) :
         /\ t[i].ev \in {"sleep", "request"}
         /\ t[i].ev = "sleep"
            => t[i] = Sleep(delay) /\ i < Len(t) /\ t[i + 1].ev = "request"
         /\ t[i].ev = "request"
            => /\ i > 1
               /\ \/ t[i - 1].ev = "sleep"
                  \/ width >= 2 /\ i > 2 /\ t[i - 1].ev = "request" /\ t[i - 2].ev = "sleep"

\* The states seen are in-progress ones followed by at most one other.
InProgressThenTerminal(seen, running) ==
    \A i \in 1..(Len(seen) - 1) : seen[i] = running

Last(q) == q[Len(q)]

\* C19: each poller sleeps its delay (10 s for a pull, 20 s for a job) once
\* before each status fetch, the first included, and fetches once per sleep;
\* the states it saw are in-progress ones followed by at most one terminal
\* state, after which it fetches no more and has returned or raised: k
\* in-progress answers and a terminal one make k + 1 fetches, and
\* IN_PROGRESS, IN_PROGRESS, SUCCESSFUL make 3 fetches and a return.
C19_PollersFetchOncePerSleep ==
    /\ (op \in {"pull_by_commit", "pull_by_commit_object", "rollback_mapping"}
          /\ pc \in {"wait_for_pull", "idle"} /\ loc.pull_action_id # None)
       => /\ WellPolled(PollTail(trace), 10, Len(Candidates), loc.polls)
          /\ InProgressThenTerminal(loc.observed, "IN_PROGRESS")
          /\ Len(loc.observed) <= loc.polls
          /\ (loc.observed # <<>> /\ Last(loc.observed) # "IN_PROGRESS")
             => /\ loc.polls = Len(loc.observed)
                /\ pc = "idle"
                /\ result.kind # "none"
                /\ result.kind = "return" <=> Last(loc.observed) = "SUCCESSFUL"
          /\ loc.observed = <<"IN_PROGRESS", "IN_PROGRESS", "SUCCESSFUL">>
             => loc.polls = 3 /\ result.kind = "return"
    /\ (op = "run_job" /\ loc.run_id # 0)
       => /\ WellPolled(PollTail(trace), 20, 1, loc.polls)
          /\ InProgressThenTerminal(loc.observed, 0)
          /\ Len(loc.observed) <= loc.polls
          /\ (loc.observed # <<>> /\ Last(loc.observed) # 0)
             => /\ pc = "idle"
                /\ result.kind # "none"
                /\ loc.log_status = 200

C19_Witness ==
    /\ Done("pull_by_commit")
    /\ loc.observed = <<"IN_PROGRESS", "IN_PROGRESS", "SUCCESSFUL">>
    /\ loc.polls = 3
    /\ result.kind = "return"
    /\ Len(SelectSeq(trace, LAMBDA e : e = Sleep(10))) = 3

\* C20: after an activity-log fetch answered 200 with an empty list, however
\* many such answers came before, run_job has neither returned nor raised,
\* its state is still 0 (running), and the poll loop goes on: its next
\* iteration, a sleep and a fetch, is what follows.
C20_EmptyActivityLogKeepsPolling ==
    (op = "run_job" /\ loc.polls > 0 /\ loc.log_status = 200 /\ loc.activity_log = <<>>)
    => /\ pc = "wait_for_job"
       /\ loc.state = 0
       /\ result = NoResult
       /\ loc.polls < MaxPolls => ENABLED WaitForJobCompletion

C20_Witness ==
    /\ pc = "wait_for_job"
    /\ loc.polls >= 2
    /\ loc.observed = <<>>
    /\ loc.activity_log = <<>>
    /\ loc.log_status = 200
    /\ WellPolled(PollTail(trace), 20, 1, loc.polls)

LogoutPath == "/public/core/v3/logout"

\* C21: logout returns whatever its request met, an error status or no
\* response at all; with the pod URL or the session id missing or empty it
\* sends no request; and when the first candidate accepts the logout it has
\* sent exactly one request, a POST to the logout endpoint.
C21_LogoutNeverRaises ==
    op = "logout"
    => /\ result.kind # "raise"
       /\ pc = "idle" => result.kind = "return"
       /\ (pod_url \in {NoneUrl, <<>>} \/ session_id \in {None, ""}) => trace = <<>>
       /\ (loc.core.ans # <<>> /\ loc.core.ans[1] = 200)
          => /\ Len(trace) = 1
             /\ trace[1].ev = "request" /\ trace[1].method = "POST"
             /\ trace[1].path = <<LogoutPath>>
             /\ trace[1].base = Candidates[1]

C21_Witness ==
    /\ Done("logout")
    /\ loc.core.ans = <<404, 0>>
    /\ loc.core.exc.kind = "ConnectionError"
    /\ Len(Requests(trace)) = 2
    /\ result.kind = "return"

\* C22: when the commit pull_by_commit falls back on has no object with an id
\* (no changed object at all, or none carrying an id), the call raises
\* IICSPullError in that attempt and sends no request to the pull endpoint;
\* and every request pull_by_commit does send to the pull endpoint names at
\* least one object, each by an id the commit gave.
C22_FallbackNeedsObjectIds ==
    op = "pull_by_commit"
    => /\ (loc.pull_ctx = "fallback" /\ loc.object_ids = <<>>)
          => /\ pc = "idle"
             /\ result.kind = "raise"
             /\ result.exc.kind = "IICSPullError"
             /\ result.exc.at = attempt
             /\ \A i \in 1..Len(loc.changes) : loc.changes[i].id \in {Absent, None, ""}
             /\ \A i \in 1..Len(Paths(trace)) : Paths(trace)[i] # PullPath
       /\ \A i \in 1..Len(Requests(trace)) :
             Requests(trace)[i].path[1] = PullPath
             => /\ Requests(trace)[i].objects # <<>>
                /\ \A k \in 1..Len(Requests(trace)[i].objects) :
                      Requests(trace)[i].objects[k] \notin {Absent, None, ""}

C22_Witness ==
    /\ Done("pull_by_commit")
    /\ loc.pull_ctx = "fallback"
    /\ loc.object_ids = <<>>
    /\ Len(loc.changes) = 2
    /\ result.exc.kind = "IICSPullError"
    /\ Paths(trace)[Len(Paths(trace))] = "/public/core/v3/commit/"

JobPath == "/api/v2/job/"

\* C23: run_job whose job-start request was answered 200 without a run id
\* raises IICSJobError; the job start is the only request it sent, and it
\* neither slept nor fetched the activity log.
C23_JobStartNeedsRunId ==
    (op = "run_job" /\ loc.job_status = 200 /\ loc.run_id = 0)
    => /\ pc = "idle"
       /\ result.kind = "raise"
       /\ result.exc.kind = "IICSJobError"
       /\ Len(trace) = 1
       /\ Paths(trace) = <<JobPath>>
       /\ loc.polls = 0

C23_Witness ==
    /\ Done("run_job")
    /\ loc.job_status = 200
    /\ loc.run_id = 0
    /\ result.exc.kind = "IICSJobError"
    /\ result.exc.job_state = NoInt
    /\ Len(Requests(trace)) = 1

----------------------------------------------------------------------------
(* Claims about the pipeline steps *)

\* The jobs the script started, in order.
RECURSIVE JobsStarted(_)
JobsStarted(log) ==
    IF log = <<>> THEN <<>>
    ELSE LET rest == JobsStarted(SubSeq(log, 1, Len(log) - 1))
             e == log[Len(log)]
         IN IF e.ev = "call" /\ e.op = "run_job" THEN Append(rest, e.task) ELSE rest

\* The appContextId values of a change list, in order.
AppContextIds(changes) == [i \in 1..Len(changes) |-> changes[i].appContextId]

\* Every change is a mapping task that has an appContextId.
AllMappingTasks(changes) ==
    /\ changes # <<>>
    /\ \A i \in 1..Len(changes) :
         changes[i].type = "MTT" /\ changes[i].appContextId # Absent

Exited == cli.step = "exited"

\* C24: in a deploy step, when the commit's changed objects are all mapping
\* tasks (type MTT) with an appContextId, the step has called run_job on each
\* of them, in order, by the time it ends, and when none of its calls failed
\* it ends with exit status 0.
C24_DeployRunsMappingTasks ==
    (/\ cli.script \in DeployScripts
     /\ Exited
     /\ cli.listed # <<>>
     /\ AllMappingTasks(cli.listed[1])
     /\ \A i \in 1..Len(cli.log) : cli.log[i].ev # "fail")
    => /\ JobsStarted(cli.log) = AppContextIds(cli.listed[1])
       /\ cli.exit = <<0>>

\* The operations that change the organisation: a pull (rollback_mapping is
\* one) or a job.
PullOrJob == {"pull_by_commit", "pull_by_commit_object", "rollback_mapping", "run_job"}

\* C25: in every script, once a step has failed no pull and no job is started
\* any more, and the script does not end with exit status 0.
C25_FailureStopsTheStep ==
    \A i \in 1..Len(cli.log) :
        cli.log[i].ev = "fail" =>
            /\ \A j \in (i + 1)..Len(cli.log) :
                 ~(cli.log[j].ev = "call" /\ cli.log[j].op \in PullOrJob)
            /\ cli.exit # <<0>>

----------------------------------------------------------------------------
(* Claims about what is retried and how often *)

PullOps == {"pull_by_commit", "pull_by_commit_object", "rollback_mapping"}

\* The path of the last request of a trace.
LastPath(tr) == Paths(tr)[Len(Paths(tr))]

\* C26: an attempt that ends in a domain error is the last one: the operation
\* has raised.  After a pull's poller saw a terminal state other than
\* SUCCESSFUL, or a job's poller a state other than 0 and 1, the operation has
\* raised IICSPullError or IICSJobError and the status fetch that saw it is
\* its last request.  run_job sends at most one job-start request, and exactly
\* one when it is authenticated.
C26_TerminalFailuresNotRetried ==
    /\ \A i \in 1..Len(outcomes) :
         outcomes[i] = "error" => i = Len(outcomes) /\ pc = "idle" /\ result.kind = "raise"
    /\ (op \in PullOps /\ loc.observed # <<>>
          /\ Last(loc.observed) \notin {"IN_PROGRESS", "SUCCESSFUL"})
       => /\ pc = "idle"
          /\ result.kind = "raise"
          /\ result.exc.kind = "IICSPullError"
          /\ Last(outcomes) = "error"
          /\ LastPath(trace) = StatusPath
    /\ (op = "run_job" /\ loc.state \notin {0, 1})
       => /\ pc = "idle"
          /\ result.kind = "raise"
          /\ result.exc.kind = "IICSJobError"
          /\ LastPath(trace) = ActivityPath
    /\ op = "run_job"
       => /\ Len(SelectSeq(Paths(trace), LAMBDA q : q = JobPath)) <= 1
          /\ attempt = 1
          /\ (pc = "idle" /\ Authenticated)
             => Len(SelectSeq(Paths(trace), LAMBDA q : q = JobPath)) = 1

C26_Witness ==
    /\ Done("pull_by_commit")
    /\ loc.fallback
    /\ loc.observed = <<"IN_PROGRESS", "FAILED">>
    /\ attempt = 1
    /\ result.exc.kind = "IICSPullError"

\* C27: within one call of pull_by_commit the bulk pull request is attempted
\* at most 3 times and the commit listing at most 3 times, and within one
\* call of get_commit_objects the commit listing at most 3 times.
C27_AtMostThreeAttemptsPerRequest ==
    op \in {"pull_by_commit", "get_commit_objects"}
    => hist.bulk <= StopAfterAttempt /\ hist.listings <= StopAfterAttempt

----------------------------------------------------------------------------
(* Claims about polling *)

\* While a poller is in its loop every fetch it made answered in progress;
\* it is ready for one more fetch, however many it made; once it has left the
\* loop its last fetch saw a terminal state or gave no state at all (the
\* request failed, or the status had no state), and in that case the
\* operation has raised.
PollingEndsOnTerminalOrFailure ==
    /\ (op = "pull_by_commit_object" /\ pc = "wait_for_pull")
       => /\ Len(loc.observed) = loc.polls
          /\ \A i \in 1..Len(loc.observed) : loc.observed[i] = "IN_PROGRESS"
          /\ loc.polls > 0 => loc.core.ok
          /\ loc.polls < MaxPolls => ENABLED WaitForPullCompletion
    /\ (op = "pull_by_commit_object" /\ pc = "idle" /\ loc.pull_action_id # None)
       => /\ loc.polls >= 1
          /\ \/ Len(loc.observed) = loc.polls /\ Last(loc.observed) # "IN_PROGRESS"
             \/ Len(loc.observed) = loc.polls - 1 /\ result.kind = "raise"
    /\ (op = "run_job" /\ pc = "wait_for_job")
       => /\ loc.state = 0
          /\ loc.polls > 0 => loc.log_status = 200
          /\ loc.polls < MaxPolls => ENABLED WaitForJobCompletion
    /\ (op = "run_job" /\ pc = "idle" /\ loc.run_id # 0)
       => /\ loc.polls >= 1
          /\ \/ loc.log_status = 200 /\ loc.state # 0
             \/ loc.log_status # 200 /\ result.kind = "raise"

\* C28: a poll loop goes on as long as its fetches answer in progress, with
\* no limit of its own on their number, and ends only on a terminal state or
\* a failed fetch, after which it does not fetch again; a poller in its loop
\* eventually leaves it, by a return or a raise, unless the answers stay in
\* progress, and then it is still polling after MaxPolls fetches.
C28_PollingUnboundedUntilTerminal ==
    /\ []PollingEndsOnTerminalOrFailure
    /\ [](pc = "wait_for_pull" => <>(pc = "idle" \/ loc.polls = MaxPolls))
    /\ [](pc = "wait_for_job" => <>(pc = "idle" \/ loc.polls = MaxPolls))

C28_Witness ==
    /\ op = "run_job"
    /\ pc = "wait_for_job"
    /\ loc.polls = MaxPolls
    /\ loc.observed = [i \in 1..MaxPolls |-> 0]
    /\ result.kind = "none"

----------------------------------------------------------------------------
(* Claims about the order of a deploy step *)

\* The objects of a list that have an appContextId.
WithAppContextId(objects) ==
    SelectSeq(objects, LAMBDA x : x.appContextId # Absent /\ Truthy(x.appContextId))

\* Their positions in the list, in increasing order.
RECURSIVE PositionsWithAppContextId(_)
PositionsWithAppContextId(objects) ==
    IF objects = <<>> THEN <<>>
    ELSE LET n == Len(objects)
             rest == PositionsWithAppContextId(SubSeq(objects, 1, n - 1))
         IN IF WithAppContextId(<<objects[n]>>) # <<>> THEN Append(rest, n) ELSE rest

\* Where the loop stood at each job the script started, in order.
JobPositions(log) ==
    LET calls == SelectSeq(log, LAMBDA x : x.ev = "call" /\ x.op = "run_job")
    IN [i \in 1..Len(calls) |-> calls[i].idx]

\* How many events of a log are of kind e for run_job.
JobEvents(log, e) == Len(SelectSeq(log, LAMBDA x : x.op = "run_job" /\ x.ev = e))

\* C29: a deploy step starts its jobs in the order of the list it was given,
\* skipping no object that has an appContextId; it starts a job only right
\* after the listing or after the previous job returned, which it does on
\* terminal state 1 only, so that at most one job is running, the one the
\* step waits for; and the UAT step starts no job unless pull_by_commit
\* returned, which it does on status SUCCESSFUL only.
C29_OneJobAtATimeInOrder ==
    cli.script \in DeployScripts
    => /\ IsPrefix(JobsStarted(cli.log), AppContextIds(WithAppContextId(cli.objects)))
       /\ IsPrefix(JobPositions(cli.log), PositionsWithAppContextId(cli.objects))
       /\ \A i \in 1..Len(cli.log) :
            (cli.log[i].ev = "call" /\ cli.log[i].op = "run_job")
            => /\ i > 1
               /\ cli.log[i - 1].ev = "ok"
               /\ cli.log[i - 1].op \in {"get_commit_objects", "run_job"}
       /\ LET running == JobEvents(cli.log, "call") - JobEvents(cli.log, "ok")
                             - JobEvents(cli.log, "fail")
          IN /\ running \in {0, 1}
             /\ running = 1 <=> cli.step = "run_job"
       /\ (cli.step = "run_job" /\ Finished("run_job") /\ result.kind = "return")
          => loc.state = 1
       /\ (cli.script = "deploy_uat" /\ JobsStarted(cli.log) # <<>>)
          => /\ cli.log[1].ev = "call" /\ cli.log[1].op = "pull_by_commit"
             /\ cli.log[2].ev = "ok" /\ cli.log[2].op = "pull_by_commit"
       /\ (cli.script = "deploy_uat" /\ cli.step = "pull_by_commit"
             /\ Finished("pull_by_commit") /\ result.kind = "return")
          => loc.status = "SUCCESSFUL"

C29_Witness ==
    /\ cli.script = "deploy_uat"
    /\ Exited
    /\ cli.exit = <<0>>
    /\ Len(cli.objects) = 3
    /\ JobsStarted(cli.log) = <<"app-ctx-3", "app-ctx-3">>
    /\ JobPositions(cli.log) = <<1, 3>>

----------------------------------------------------------------------------
(* Claims about what an operation leaves alone *)

\* C30: during and after pull_by_commit, pull_by_commit_object,
\* get_commit_objects, run_job, rollback_mapping and logout, whether they
\* return or raise, the session id and the headers are those the client had
\* when the operation was called.
C30_OnlyLoginChangesSession ==
    op \in AuthenticatedOps \cup {"logout"}
    => session_id = pre.session_id /\ headers = pre.headers

C30_Witness ==
    /\ Done("logout")
    /\ Requests(trace) # <<>>
    /\ ~loc.core.ok
    /\ session_id = "sid-1"
    /\ headers = InitHeaders("sid-1")

----------------------------------------------------------------------------
(* Claims about the candidate base URLs *)

ApiSuffix == <<"/", "saas">>

\* A base that has neither a trailing slash nor the API suffix.
Canonical(b) == b # <<>> /\ b[Len(b)] # "/" /\ ~EndsWithSaas(b)

\* C31: for every pod URL that is set the candidate list is the base with
\* trailing slashes and one API suffix stripped, followed by that base with
\* the suffix appended when the two differ: 1 or 2 entries, no duplicates.
\* One more trailing slash changes nothing, and when the stripped base has no
\* slash or suffix left at its end, the list is the same for that base
\* configured bare, with a trailing slash, with the suffix, and with both.
C31_CandidateBasesCanonical ==
    (Done("_core_v3_base_urls") /\ result.kind = "return")
    => LET urls == result.list
           b == urls[1]
       IN /\ Len(urls) \in {1, 2}
          /\ b = SuffixStripped(pod_url)
          /\ Len(urls) = 2 => urls[2] = b \o ApiSuffix /\ urls[2] # b
          /\ Len(urls) = 1 => b \o ApiSuffix = b
          /\ CoreV3BaseUrls(pod_url \o <<"/">>) = urls
          /\ Canonical(b)
             => /\ CoreV3BaseUrls(b) = urls
                /\ CoreV3BaseUrls(b \o <<"/">>) = urls
                /\ CoreV3BaseUrls(b \o ApiSuffix) = urls
                /\ CoreV3BaseUrls((b \o ApiSuffix) \o <<"/">>) = urls

C31_Witness ==
    /\ Done("_core_v3_base_urls")
    /\ pod_url = <<"https://pod", "/", "saas", "/">>
    /\ result.list = << <<"https://pod">>, <<"https://pod", "/", "saas">> >>

----------------------------------------------------------------------------
(* Claims about the end of a pipeline step *)

\* The script called an operation of kind e.
Logged(e, o) == \E i \in 1..Len(cli.log) : cli.log[i].ev = e /\ cli.log[i].op = o

\* An operation other than logout failed.
SomeFailure ==
    \E i \in 1..Len(cli.log) : cli.log[i].ev = "fail" /\ cli.log[i].op # "logout"

\* C32: a step that has called the client has called logout by the time it
\* exits, whether an operation failed or not, and it exits with status 1 when
\* an operation before the logout failed and with status 0 otherwise,
\* whatever the logout request met.
C32_LogoutOnEveryExitPath ==
    (cli.script \in ClientScripts /\ Exited /\ cli.log # <<>>)
    => /\ Logged("call", "logout")
       /\ cli.exit = IF SomeFailure THEN <<1>> ELSE <<0>>

----------------------------------------------------------------------------
(* Claims about the activity log the job poller holds *)

\* The poll loop of run_job was left by its condition, not by an exception of
\* the status fetch.
JobLoopExited ==
    op = "run_job" /\ pc = "idle" /\ loc.run_id # 0 /\ loc.log_status = 200

\* C33: when the job poll loop has been left, the activity log fetched last is
\* not empty and the state that ended the loop is the one of its first entry,
\* however many empty and non-empty logs came before; the object name of the
\* IICSJobError raised on a failure is read from that entry.
C33_ExitedLoopHoldsNonEmptyLog ==
    JobLoopExited
    => /\ loc.activity_log # <<>>
       /\ loc.activity_log[1].state = loc.state
       /\ loc.state # 0
       /\ result.kind = "raise"
          => /\ result.exc.kind = "IICSJobError"
             /\ result.exc.object_name = Get(loc.activity_log[1].objectName, "Unknown")

C33_Witness ==
    /\ JobLoopExited
    /\ result.kind = "raise"
    /\ loc.polls = 3
    /\ loc.observed = <<0, 2>>
    /\ Len(loc.activity_log) = 2
====
